---- MODULE Spec2Model ----
(***************************************************************************)
(* Model of the dashboard layout calculator, the asset builders and the    *)
(* top-level sync of box-office-drafting.                                  *)
(*                                                                         *)
(*   src/sheets/tabs/dashboard.py  calculate_picks_table_layout,           *)
(*                                 DashboardWorksheet.generate and hooks   *)
(*   src/utils/gsheet.py           GoogleSheetDashboard.__init__,          *)
(*                                 setup_worksheet                         *)
(*   src/etl.py                    google_sheet_sync, run_sqlmesh_plan,    *)
(*                                 load_dashboard_data                     *)
(*                                                                         *)
(* A dataframe is modelled as the sequence of its row identities; the row  *)
(* counts of the four result tables are the inputs, drawn in Init.         *)
(***************************************************************************)
EXTENDS Integers, Sequences, FiniteSets

\* ------------------------------------------------------------------ bounds
MaxScoreboard == 2
MaxReleased == 15
MaxWorst == 4
MaxBest == 4
MaxTitles == 2
MaxDumpRows == 2
MaxConfigs == 2
MaxCycles == 2
MaxLaterCalls == 2

\* --------------------------------------------------------------- constants
\* Python's None, as returned for best_picks_row_num when only one table fits.
\* Row numbers are at least 7, so -1 is never a row number.
None == -1

min_rows_per_table == 2
separator_rows == 2

\* Column letters as 1-indexed column numbers.
ColB == 2
ColG == 7
ColI == 9
ColX == 24

\* sizes and widths the program passes to the spreadsheet
initial_rows == 500
dashboard_cols == 25
default_sheet_height == 100
width_G == 164
width_G_done == 200

\* modal.Retries of update_dashboards
max_retries == 3
backoff_coefficient == 1
initial_delay == 60

VARIABLES
    scoreboard_length,       \* len(scoreboard_df)       as read from dashboards.scoreboard
    released_movies_length,  \* len(released_movies_df)  as read from combined.base_query
    worst_picks_length,      \* len(worst_picks_df)      as read from dashboards.worst_picks
    best_picks_length,       \* len(best_picks_df)       as read from dashboards.best_picks
    worksheets,              \* names of the worksheets of the remote spreadsheet
    pc,                      \* position of the running entry point
    layout,                  \* the layout dict computed in this run, NoLayout before
    assets,                  \* list returned by DashboardWorksheet.generate
    dashboard_elements,      \* GoogleSheetDashboard.dashboard_elements
    sqlmesh,                 \* outcome of run_sqlmesh_plan in this run
    ops,                     \* spreadsheet operations issued in this run, in order
    draft_movies,            \* cleaned.drafter, column movie, in table order
    released_titles,         \* combined.base_query, column title, in table order
    dump,                    \* rows of cleaned.box_office_mojo_dump
    queries,                 \* database queries issued by the diagnostics of this run
    log,                     \* messages passed to logging.info by the diagnostics
    dashboard,               \* the Dashboard worksheet of the remote spreadsheet
    still_in_theaters,       \* rows of released_movies_df whose 'Still In Theaters' is not 'No'
    zero_value_rows,         \* rows of released_movies_df whose 'Better Pick Scored Revenue' is 0
    year,                    \* config_dict['year']
    formatting_first,        \* DashboardRunner applies get_formatting() before the hooks
    cycle,                   \* number of the render cycle, counting retries and reruns
    calls,                   \* spreadsheet calls of this cycle with their arguments
    config_files,            \* parsed YAML of sorted(config_dir.glob('*.yml'))
    seen_draft_ids,          \* update_dashboards: draft ids of the configs accepted so far
    position,                \* update_dashboards: index of config_path in config_files
    synced,                  \* indexes of the configs google_sheet_sync has run for
    validated,               \* outcome of the last validate_config call, NoOutcome before
    retries,                 \* delays Modal has waited before the retries of this invocation
    remembered               \* an earlier call of calculate_picks_table_layout, NoCall before

inputs == <<scoreboard_length, released_movies_length, worst_picks_length, best_picks_length>>
tables == <<draft_movies, released_titles, dump>>
diagnostics == <<queries, log>>
render == <<dashboard, still_in_theaters, zero_value_rows, year, formatting_first, cycle, calls>>
app == <<config_files, seen_draft_ids, position, synced, validated, retries>>
vars == <<scoreboard_length, released_movies_length, worst_picks_length, best_picks_length,
          worksheets, pc, layout, assets, dashboard_elements, sqlmesh, ops,
          draft_movies, released_titles, dump, queries, log,
          dashboard, still_in_theaters, zero_value_rows, year, formatting_first, cycle,
          calls,
          config_files, seen_draft_ids, position, synced, validated, retries,
          remembered>>

NoLayout == [computed |-> FALSE]
NoOutcome == [called |-> FALSE]
NoCall == [made |-> FALSE]

\* ------------------------------------------------------------ pure helpers
Min(a, b) == IF a <= b THEN a ELSE b

\* Python floor division by a positive divisor (TLA+ \div floors as well).
FloorDiv(a, b) == a \div b

\* A dataframe of n rows: rows are identified by their position in the table.
Rows(n) == [i \in 1..n |-> i]

\* pandas DataFrame.head(n): the first n rows; for negative n, all rows but
\* the last |n|.
head(df, n) ==
    IF n >= 0
    THEN SubSeq(df, 1, Min(n, Len(df)))
    ELSE SubSeq(df, 1, IF Len(df) + n > 0 THEN Len(df) + n ELSE 0)

\* ------------------------------------------- calculate_picks_table_layout
\* mutant: the spacing constant is added instead of subtracted
available_height_of_plus(scoreboard_len, released_len) ==
    released_len - scoreboard_len + 3

\* mutant: the three spacing rows are forgotten
available_height_of_no_spacing(scoreboard_len, released_len) ==
    released_len - scoreboard_len

available_height_of(scoreboard_len, released_len) ==
    released_len - scoreboard_len - 3

\* mutant: the blank row above the picks title is forgotten
picks_row_num_of_one_short(scoreboard_len) ==
    5 + scoreboard_len + 1

\* mutant: the row is kept between calls and moves down with every call
picks_row_num_of_below_last(scoreboard_len) ==
    IF layout = NoLayout
    THEN 5 + scoreboard_len + 2
    ELSE layout.worst_picks_row_num + 1

picks_row_num_of(scoreboard_len) ==
    5 + scoreboard_len + 2

\* mutant: one row per table is held to be enough
total_required_one_row_each == min_rows_per_table + separator_rows

total_required == min_rows_per_table * 2 + separator_rows

\* mutant: strict comparison with the required height
both_tables_fit_strict(available_height, worst_len, best_len) ==
    /\ available_height > total_required
    /\ worst_len > 1
    /\ best_len > 1

\* mutant: the worst-picks data length is not checked
both_tables_fit_no_worst_check(available_height, worst_len, best_len) ==
    /\ available_height >= total_required
    /\ best_len > 1

both_tables_fit(available_height, worst_len, best_len) ==
    /\ available_height >= total_required
    /\ worst_len > 1
    /\ best_len > 1

\* mutant: the separator rows are not taken off
usable_height_of_no_separator(available_height) ==
    available_height - 2

usable_height_of(available_height) ==
    available_height - 2 - separator_rows

\* mutant: the half of the usable height, not capped by the data length
both_worst_picks_height_uncapped(usable_height, worst_len) ==
    FloorDiv(usable_height, 2)

both_worst_picks_height(usable_height, worst_len) ==
    Min(FloorDiv(usable_height, 2), worst_len)

\* mutant: the worst-picks title row is not counted
both_best_picks_row_num_no_title(picks_row_num, worst_picks_height) ==
    picks_row_num + worst_picks_height + separator_rows

\* mutant: no separator rows between the two tables
both_best_picks_row_num_no_separator(picks_row_num, worst_picks_height) ==
    picks_row_num + 1 + worst_picks_height

both_best_picks_row_num(picks_row_num, worst_picks_height) ==
    picks_row_num + 1 + worst_picks_height + separator_rows

\* mutant: the even half instead of the remainder
both_best_picks_height_even(usable_height, worst_picks_height, best_len) ==
    Min(FloorDiv(usable_height, 2), best_len)

\* mutant: the rows of the worst-picks table are not taken off
both_best_picks_height_all_usable(usable_height, worst_picks_height, best_len) ==
    Min(usable_height, best_len)

both_best_picks_height(usable_height, worst_picks_height, best_len) ==
    Min(usable_height - worst_picks_height, best_len)

\* mutant: the available height is not checked to be positive
fallback_worst_picks_height_unchecked(available_height, worst_len) ==
    IF worst_len > 1
    THEN Min(available_height, worst_len)
    ELSE 0

\* mutant: the data length is not checked to exceed one row
fallback_worst_picks_height_any_length(available_height, worst_len) ==
    IF available_height > 0
    THEN Min(available_height, worst_len)
    ELSE 0

fallback_worst_picks_height(available_height, worst_len) ==
    IF available_height > 0 /\ worst_len > 1
    THEN Min(available_height, worst_len)
    ELSE 0

calculate_picks_table_layout(scoreboard_len, released_len, worst_len, best_len) ==
    LET available_height == available_height_of(scoreboard_len, released_len)
        picks_row_num == picks_row_num_of(scoreboard_len)
    IN  IF both_tables_fit(available_height, worst_len, best_len)
        THEN LET usable_height == usable_height_of(available_height)
                 worst_picks_height == both_worst_picks_height(usable_height, worst_len)
             IN  [ available_height |-> available_height,
                   add_both_picks_tables |-> TRUE,
                   worst_picks_row_num |-> picks_row_num,
                   worst_picks_height |-> worst_picks_height,
                   best_picks_row_num |->
                       both_best_picks_row_num(picks_row_num, worst_picks_height),
                   best_picks_height |->
                       both_best_picks_height(usable_height, worst_picks_height, best_len) ]
        ELSE [ available_height |-> available_height,
               add_both_picks_tables |-> FALSE,
               worst_picks_row_num |-> picks_row_num,
               worst_picks_height |->
                   fallback_worst_picks_height(available_height, worst_len),
               best_picks_row_num |-> None,
               best_picks_height |-> 0 ]

\* ------------------------------------------------------------- table values
\* A value found in a title column: its Python type and the text str() gives.
StrValue(text) == [type |-> "str", text |-> text]
NoneValue == [type |-> "NoneType", text |-> "None"]

RawTitles == {StrValue("A"), StrValue("a"), NoneValue}

\* str(movie)
str(value) == value.text

\* Python compares strings by code point: 'A' < 'B' < 'None' < 'a'.
code_order(text) ==
    CASE text = "A"    -> 1
      [] text = "B"    -> 2
      [] text = "None" -> 3
      [] text = "a"    -> 4

RECURSIVE sorted(_)
sorted(texts) ==
    IF texts = {}
    THEN <<>>
    ELSE LET first == CHOOSE x \in texts :
                          \A y \in texts : code_order(x) <= code_order(y)
         IN  <<first>> \o sorted(texts \ {first})

\* set(str(movie) for movie in column.tolist())
set_of_str(column) == { str(column[i]) : i \in DOMAIN column }

BoundedSeq(S, n) == UNION { [1..k -> S] : k \in 0..n }

\* ------------------------------------------------- the Dashboard worksheet
\* datetime.now(timezone.utc).year
CurrentYear == 2026

\* The visible state of the Dashboard worksheet: its size, the dataframes
\* written to it, the calls that wrote titles, merged or formatted ranges,
\* the text of G2, the width of column G and whether notes are set.  stale
\* marks content that an earlier run left behind.
NoDashboard == [exists |-> FALSE]

NoMessage == <<>>

BlankDashboard(rows, cols) ==
    [exists |-> TRUE, rows |-> rows, cols |-> cols, written |-> {}, applied |-> {},
     g2 |-> NoMessage, width_G |-> None, notes |-> FALSE, stale |-> FALSE]

\* What an earlier run over other data can have left: a finished dashboard
\* or one abandoned part of the way.
StaleDashboards ==
    { [BlankDashboard(7, dashboard_cols) EXCEPT !.stale = TRUE, !.width_G = width_G_done],
      [BlankDashboard(initial_rows, dashboard_cols) EXCEPT !.stale = TRUE] }

\* The remote spreadsheet before a run: the Draft worksheet is always there.
InitialSpreadsheets ==
    { [worksheets |-> {"Draft"} \cup s, dashboard |-> d] :
        s \in SUBSET {"Dashboard", "Manual Adds", "Multipliers and Exclusions"},
        d \in {NoDashboard} \cup StaleDashboards }

\* A call of the spreadsheet API: the operation, the worksheet it is issued
\* on ("" for the spreadsheet itself) and its arguments.
Call(op, target, arg) == [op |-> op, target |-> target, arg |-> arg]

Size(rows, cols) == [rows |-> rows, cols |-> cols]

\* A cell or range: a name for its columns and the row it starts or ends at.
Range(tag, row) == [tag |-> tag, row |-> row]

Width(column, width) == [column |-> column, width |-> width]

Values(cell, row, text) == [cell |-> cell, row |-> row, text |-> text]

worksheets_after(call, ws) ==
    CASE call.op = "create_worksheet" -> ws \cup {call.target}
      [] call.op = "delete_worksheet" -> ws \ {call.target}
      [] OTHER                        -> ws

\* What a call leaves of the Dashboard worksheet.  A created worksheet is
\* blank; a write to G2 replaces its text; every other write, merge or format
\* is recorded with its range.
dashboard_after(call, dash) ==
    IF call.target # "Dashboard"
    THEN dash
    ELSE CASE call.op = "create_worksheet" ->
                BlankDashboard(call.arg.rows, call.arg.cols)
           [] call.op = "delete_worksheet" -> NoDashboard
           [] call.op = "write_dataframe" ->
                [dash EXCEPT !.written = @ \cup {call.arg}]
           [] call.op = "resize_sheet" ->
                [dash EXCEPT !.rows = call.arg.rows, !.cols = call.arg.cols]
           [] call.op = "set_column_width" /\ call.arg.column = "G" ->
                [dash EXCEPT !.width_G = call.arg.width]
           [] call.op = "write_values" /\ call.arg.cell = "G" /\ call.arg.row = 2 ->
                [dash EXCEPT !.g2 = call.arg.text]
           [] call.op = "set_notes" -> [dash EXCEPT !.notes = TRUE]
           [] call.op = "read" -> dash
           [] OTHER ->
                [dash EXCEPT !.applied = @ \cup {[op |-> call.op, arg |-> call.arg]}]

RECURSIVE worksheets_after_all(_, _)
worksheets_after_all(cs, ws) ==
    IF cs = <<>> THEN ws ELSE worksheets_after_all(Tail(cs), worksheets_after(Head(cs), ws))

RECURSIVE dashboard_after_all(_, _)
dashboard_after_all(cs, dash) ==
    IF cs = <<>> THEN dash ELSE dashboard_after_all(Tail(cs), dashboard_after(Head(cs), dash))

\* A stretch of calls issued in order.  Any call can fail, which ends the
\* run with the calls before it applied; failed is set when the code between
\* the calls raises after the last of them.
perform(cs, failed, there) ==
    \E k \in 0..Len(cs) :
        /\ calls' = calls \o SubSeq(cs, 1, k)
        /\ ops' = ops \o [i \in 1..Min(k + 1, Len(cs)) |-> cs[i].op]
        /\ worksheets' = worksheets_after_all(SubSeq(cs, 1, k), worksheets)
        /\ dashboard' = dashboard_after_all(SubSeq(cs, 1, k), dashboard)
        /\ pc' = IF k = Len(cs) /\ ~failed THEN there ELSE "raised"

\* --------------------------------------------------------------------- Init
Init ==
    /\ scoreboard_length \in 0..MaxScoreboard
    /\ released_movies_length \in 0..MaxReleased
    /\ worst_picks_length \in 0..MaxWorst
    /\ best_picks_length \in 0..MaxBest
    /\ worksheets \in { {"Draft"} \cup s :
                          s \in SUBSET {"Dashboard", "Manual Adds",
                                        "Multipliers and Exclusions"} }
    /\ dashboard = IF "Dashboard" \in worksheets
                   THEN [BlankDashboard(7, dashboard_cols) EXCEPT !.stale = TRUE]
                   ELSE NoDashboard
    /\ still_in_theaters = {}
    /\ zero_value_rows = {}
    /\ year = CurrentYear
    /\ formatting_first = TRUE
    /\ cycle = 1
    /\ calls = <<>>
    /\ config_files = <<>>
    /\ seen_draft_ids = {}
    /\ position = 0
    /\ synced = <<>>
    /\ validated = NoOutcome
    /\ retries = <<>>
    /\ remembered = NoCall
    /\ pc = "idle"
    /\ layout = NoLayout
    /\ assets = <<>>
    /\ dashboard_elements = <<>>
    /\ sqlmesh = "not_called"
    /\ ops = <<>>
    /\ draft_movies = <<>>
    /\ released_titles = [i \in 1..released_movies_length |-> StrValue("A")]
    /\ dump = {}
    /\ queries = <<>>
    /\ log = <<>>

\* ------------------------------------------------ DashboardWorksheet.generate
\* A WorksheetAsset: the dataframe, its anchor cell (column, row) and the
\* number of dataframe columns; name tells which table the asset holds.
WorksheetAsset(name, col, row, ncols, df) ==
    [name |-> name, col |-> col, row |-> row, ncols |-> ncols, df |-> df]

\* mutant: only the data length decides
add_picks_table_of_length_only(lay, worst_len) ==
    worst_len > 1

add_picks_table_of(lay, worst_len) ==
    lay.worst_picks_height > 0 /\ worst_len > 1

generate_assets(scoreboard_len, released_len, worst_len, best_len) ==
    LET lay == calculate_picks_table_layout(scoreboard_len, released_len,
                                            worst_len, best_len)
        fixed == << WorksheetAsset("Scoreboard", ColB, 4, 6, Rows(scoreboard_len)),
                    WorksheetAsset("ReleasedMovies", ColI, 4, 16, Rows(released_len)) >>
        worst == << WorksheetAsset("WorstPicks", ColB, lay.worst_picks_row_num, 6,
                                   head(Rows(worst_len), lay.worst_picks_height)) >>
        best == << WorksheetAsset("BestPicks", ColB, lay.best_picks_row_num, 6,
                                  head(Rows(best_len), lay.best_picks_height)) >>
    IN  IF add_picks_table_of(lay, worst_len)
        THEN IF lay.add_both_picks_tables
             THEN fixed \o worst \o best
             ELSE fixed \o worst
        ELSE fixed

\* Row of the section title written by the asset's title hook.
title_row(asset) ==
    IF asset.name \in {"Scoreboard", "ReleasedMovies"}
    THEN 2
    ELSE asset.row - 1

\* Rows written by write_dataframe: the header at the anchor, the data below.
data_rows(asset) == asset.row .. (asset.row + Len(asset.df))

asset_columns(asset) == asset.col .. (asset.col + asset.ncols - 1)

asset_cells(asset) ==
    ({title_row(asset)} \cup data_rows(asset)) \X asset_columns(asset)

generate ==
    /\ pc = "idle"
    /\ layout' = calculate_picks_table_layout(scoreboard_length, released_movies_length,
                                              worst_picks_length, best_picks_length)
    /\ assets' = generate_assets(scoreboard_length, released_movies_length,
                                 worst_picks_length, best_picks_length)
    /\ pc' = "generated"
    /\ UNCHANGED <<remembered, inputs, worksheets, dashboard_elements, sqlmesh, ops>>
    /\ UNCHANGED <<tables, diagnostics, render, app>>

\* --------------------------------------------- GoogleSheetDashboard.__init__
\* The static method of GoogleSheetDashboard, a second copy of the layout
\* calculation, translated from its own text.
GoogleSheetDashboard_calculate_picks_table_layout(scoreboard_len, released_len, worst_len, best_len) ==
    LET available_height == released_len - scoreboard_len - 3
        picks_row_num == 5 + scoreboard_len + 2
        required == min_rows_per_table * 2 + separator_rows
    IN  IF available_height >= required /\ worst_len > 1 /\ best_len > 1
        THEN LET usable_height == available_height - 2 - separator_rows
                 height_per_table == FloorDiv(usable_height, 2)
                 worst_picks_height == Min(height_per_table, worst_len)
             IN  [ available_height |-> available_height,
                   add_both_picks_tables |-> TRUE,
                   worst_picks_row_num |-> picks_row_num,
                   worst_picks_height |-> worst_picks_height,
                   best_picks_row_num |->
                       picks_row_num + 1 + worst_picks_height + separator_rows,
                   best_picks_height |->
                       Min(usable_height - worst_picks_height, best_len) ]
        ELSE [ available_height |-> available_height,
               add_both_picks_tables |-> FALSE,
               worst_picks_row_num |-> picks_row_num,
               worst_picks_height |->
                   (IF available_height > 0 /\ worst_len > 1
                    THEN Min(available_height, worst_len)
                    ELSE 0),
               best_picks_row_num |-> None,
               best_picks_height |-> 0 ]

\* The module-level function of tests/test_gsheet_layout.py, a third copy of
\* the layout calculation, translated from its own text.
test_calculate_picks_table_layout(scoreboard_len, released_len, worst_len, best_len) ==
    LET available_height == released_len - scoreboard_len - 3
        picks_row_num == 5 + scoreboard_len + 2
        required == min_rows_per_table * 2 + separator_rows
        fits == /\ available_height >= required
                /\ worst_len > 1
                /\ best_len > 1
        usable_height == available_height - 2 - separator_rows
        height_per_table == FloorDiv(usable_height, 2)
        worst_picks_height ==
            IF fits
            THEN Min(height_per_table, worst_len)
            ELSE IF available_height > 0 /\ worst_len > 1
                 THEN Min(available_height, worst_len)
                 ELSE 0
    IN  [ available_height |-> available_height,
          add_both_picks_tables |-> fits,
          worst_picks_row_num |-> picks_row_num,
          worst_picks_height |-> worst_picks_height,
          best_picks_row_num |->
              IF fits
              THEN picks_row_num + 1 + worst_picks_height + separator_rows
              ELSE None,
          best_picks_height |->
              IF fits
              THEN Min(usable_height - worst_picks_height, best_len)
              ELSE 0 ]

init_dashboard_elements(scoreboard_len, released_len, worst_len, best_len) ==
    LET lay == GoogleSheetDashboard_calculate_picks_table_layout(
                   scoreboard_len, released_len, worst_len, best_len)
        fixed == << WorksheetAsset("Scoreboard", ColB, 4, 6, Rows(scoreboard_len)),
                    WorksheetAsset("ReleasedMovies", ColI, 4, 16, Rows(released_len)) >>
        worst == << WorksheetAsset("WorstPicks", ColB, lay.worst_picks_row_num, 6,
                                   head(Rows(worst_len), lay.worst_picks_height)) >>
        best == << WorksheetAsset("BestPicks", ColB, lay.best_picks_row_num, 6,
                                  head(Rows(best_len), lay.best_picks_height)) >>
    IN  IF lay.add_both_picks_tables
        THEN fixed \o worst \o best
        ELSE IF add_picks_table_of(lay, worst_len)
             THEN fixed \o worst
             ELSE fixed

\* Spreadsheet operations that change the remote spreadsheet.
Mutations == {"delete_worksheet", "create_worksheet", "write_dataframe",
              "write_values", "format_range", "merge_cells"}

\* setup_worksheet: the credentials are read from the environment, then the
\* Dashboard worksheet is deleted (if present) and created again.  Either
\* remote call may fail; a failed call leaves the spreadsheet as it was.
setup_worksheet_outcomes == {"no_credentials", "delete_failed", "create_failed", "ok"}

setup_worksheet_ops(outcome) ==
    CASE outcome = "no_credentials" -> <<>>
      [] outcome = "delete_failed"  -> <<"delete_worksheet">>
      [] OTHER                      -> <<"delete_worksheet", "create_worksheet">>

setup_worksheet_worksheets(outcome, ws) ==
    CASE outcome = "no_credentials" -> ws
      [] outcome = "delete_failed"  -> ws
      [] outcome = "create_failed"  -> ws \ {"Dashboard"}
      [] OTHER                      -> ws \cup {"Dashboard"}

\* ------------------------------------------------------- google_sheet_sync
google_sheet_sync ==
    /\ pc = "idle"
    /\ pc' = "run_sqlmesh_plan"
    /\ UNCHANGED <<remembered, inputs, worksheets, layout, assets, dashboard_elements, sqlmesh, ops>>
    /\ UNCHANGED <<tables, diagnostics, render, app>>

\* The raw models of the transformation read the Draft, Manual Adds and
\* Multipliers and Exclusions worksheets; they change nothing remotely.
sqlmesh_reads == <<"read", "read", "read">>

run_sqlmesh_plan_returns ==
    /\ pc = "run_sqlmesh_plan"
    /\ sqlmesh' = "returned"
    /\ ops' = ops \o sqlmesh_reads
    /\ pc' = "load_dashboard_data"
    /\ UNCHANGED <<remembered, inputs, worksheets, layout, assets, dashboard_elements>>
    /\ UNCHANGED <<tables, diagnostics, render, app>>

\* mutant: the exception is swallowed and the sync goes on to the load
run_sqlmesh_plan_raises_swallowed ==
    /\ pc = "run_sqlmesh_plan"
    /\ sqlmesh' = "raised"
    /\ \E n \in 0..Len(sqlmesh_reads) : ops' = ops \o SubSeq(sqlmesh_reads, 1, n)
    /\ pc' = "load_dashboard_data"
    /\ UNCHANGED <<remembered, inputs, worksheets, layout, assets, dashboard_elements>>
    /\ UNCHANGED <<tables, diagnostics, render, app>>

run_sqlmesh_plan_raises ==
    /\ pc = "run_sqlmesh_plan"
    /\ sqlmesh' = "raised"
    /\ \E n \in 0..Len(sqlmesh_reads) : ops' = ops \o SubSeq(sqlmesh_reads, 1, n)
    /\ pc' = "raised"
    /\ UNCHANGED <<remembered, inputs, worksheets, layout, assets, dashboard_elements>>
    /\ UNCHANGED <<tables, diagnostics, render, app>>

\* The calls of setup_worksheet that went through: delete_worksheet(
\* 'Dashboard', ignore_missing=True), then create_worksheet('Dashboard',
\* rows=sheet_height, cols=25, replace=True) with sheet_height the length of
\* the released movies table plus 5.
setup_worksheet_calls(outcome, released_len) ==
    CASE outcome = "ok" ->
            << Call("delete_worksheet", "Dashboard", [none |-> TRUE]),
               Call("create_worksheet", "Dashboard",
                    Size(released_len + 5, dashboard_cols)) >>
      [] outcome = "create_failed" ->
            << Call("delete_worksheet", "Dashboard", [none |-> TRUE]) >>
      [] OTHER -> <<>>

\* load_dashboard_data, first statement: GoogleSheetDashboard(config), which
\* computes the layout and the elements and ends with setup_worksheet().
GoogleSheetDashboard__init__ ==
    /\ pc = "load_dashboard_data"
    /\ \E outcome \in setup_worksheet_outcomes :
        /\ ops' = ops \o setup_worksheet_ops(outcome)
        /\ worksheets' = setup_worksheet_worksheets(outcome, worksheets)
        /\ calls' = calls \o setup_worksheet_calls(outcome, released_movies_length)
        /\ dashboard' = dashboard_after_all(
                            setup_worksheet_calls(outcome, released_movies_length),
                            dashboard)
        /\ IF outcome = "ok"
           THEN /\ layout' = GoogleSheetDashboard_calculate_picks_table_layout(
                                 scoreboard_length, released_movies_length,
                                 worst_picks_length, best_picks_length)
                /\ dashboard_elements' = init_dashboard_elements(
                                 scoreboard_length, released_movies_length,
                                 worst_picks_length, best_picks_length)
                /\ pc' = "update_dashboard"
           ELSE /\ UNCHANGED <<layout, dashboard_elements>>
                /\ pc' = "raised"
    /\ UNCHANGED <<remembered, inputs, assets, sqlmesh, tables, diagnostics, still_in_theaters,
                   zero_value_rows, year, formatting_first, cycle, app>>

\* load_dashboard_data, second statement: update_dashboard(gsheet_dashboard)
\* is called without the config_dict the function requires, so the call
\* raises TypeError before the function body runs.
update_dashboard_call ==
    /\ pc = "update_dashboard"
    /\ pc' = "raised"
    /\ UNCHANGED <<remembered, inputs, worksheets, layout, assets, dashboard_elements, sqlmesh, ops>>
    /\ UNCHANGED <<tables, diagnostics, render, app>>

Next ==
    \/ generate
    \/ google_sheet_sync
    \/ run_sqlmesh_plan_returns
    \/ run_sqlmesh_plan_raises
    \/ GoogleSheetDashboard__init__
    \/ update_dashboard_call

Spec == Init /\ [][Next]_vars

\* ============================================================== diagnostics
\* A call of logging.info: the message and the text formatted into it.  A
\* comma-joined list of titles is kept as the sequence of the titles.
LogRecord(msg, detail) == [msg |-> msg, detail |-> detail]

\* mutant: the difference is taken the wrong way round
missing_from_scoreboard_reversed(drafted, released) ==
    sorted(set_of_str(released) \ set_of_str(drafted))

\* sorted(drafted_movies - released_movies), both sets of str(movie)
missing_from_scoreboard(drafted, released) ==
    sorted(set_of_str(drafted) \ set_of_str(released))

missing_movies_log(missing) ==
    IF missing # <<>>
    THEN << LogRecord("missing_from_scoreboard", <<>>),
            LogRecord("missing_movies", missing) >>
    ELSE << LogRecord("all_on_scoreboard", <<>>) >>

\* mutant: the check also puts the worksheets in order
runner_log_missing_movies_reordering ==
    /\ pc = "_log_missing_movies"
    /\ queries' = queries \o <<"cleaned.drafter", "combined.base_query">>
    /\ log' = log \o missing_movies_log(
                         missing_from_scoreboard(draft_movies, released_titles))
    /\ ops' = ops \o <<"reorder_worksheets">>
    /\ pc' = "_log_min_revenue_info"
    /\ UNCHANGED <<remembered, inputs, worksheets, layout, assets, dashboard_elements, sqlmesh,
                   tables, render, app>>

\* runner._log_missing_movies: both tables are read again from the database.
runner_log_missing_movies ==
    /\ pc = "_log_missing_movies"
    /\ queries' = queries \o <<"cleaned.drafter", "combined.base_query">>
    /\ log' = log \o missing_movies_log(
                         missing_from_scoreboard(draft_movies, released_titles))
    /\ pc' = "_log_min_revenue_info"
    /\ UNCHANGED <<remembered, inputs, worksheets, layout, assets, dashboard_elements, sqlmesh, ops,
                   tables, render, app>>

\* gsheet.log_missing_movies: list(set(drafted) - set(released)), sorted when
\* it is joined; the released titles are those of the dashboard object.
gsheet_missing_from_scoreboard(drafted, released) ==
    LET movies_missing_from_scoreboard == set_of_str(drafted) \ set_of_str(released)
    IN  IF movies_missing_from_scoreboard # {}
        THEN << LogRecord("missing_from_scoreboard", <<>>),
                LogRecord("missing_movies", sorted(movies_missing_from_scoreboard)) >>
        ELSE << LogRecord("all_on_scoreboard", <<>>) >>

log_missing_movies ==
    /\ pc = "log_missing_movies"
    /\ queries' = queries \o <<"cleaned.drafter">>
    /\ log' = log \o gsheet_missing_from_scoreboard(draft_movies, released_titles)
    /\ pc' = "log_min_revenue_info"
    /\ UNCHANGED <<remembered, inputs, worksheets, layout, assets, dashboard_elements, sqlmesh, ops,
                   tables, render, app>>

\* ---- _log_min_revenue_info / log_min_revenue_info
\* where release_year = {year}
year_rows(d) == { r \in d : r.this_year }

\* qualify rank() over (order by loaded_date desc) = 1
most_recent_data(d) ==
    { r \in year_rows(d) : \A q \in year_rows(d) : q.loaded_date <= r.loaded_date }

\* qualify row_number() over (order by revenue asc) = 1, column revenue:
\* at most one row, the lowest revenue of the most recent load.
threshold_query(d) ==
    IF most_recent_data(d) = {}
    THEN <<>>
    ELSE << CHOOSE v \in { r.revenue : r \in most_recent_data(d) } :
                \A r \in most_recent_data(d) : v <= r.revenue >>

\* The rows of a title that row_number() over (partition by title order by
\* loaded_date desc) = 1 can keep: any of its rows of the latest load.
latest_rows(d, title) ==
    { r \in year_rows(d) :
        /\ r.title = title
        /\ \A q \in year_rows(d) : q.title = title => q.loaded_date <= r.loaded_date }

\* Titles of base_query a SQL join on title can match (NULL matches nothing).
joinable_titles(released) ==
    { released[i].text : i \in { j \in DOMAIN released : released[j].type = "str" } }

\* Titles the second query must return, and those it may return when a
\* title has several rows of the same load.
must_be_under(d, released, threshold) ==
    { t \in joinable_titles(released) :
        latest_rows(d, t) # {} /\ \A r \in latest_rows(d, t) : r.revenue <= threshold }

may_be_under(d, released, threshold) ==
    { t \in joinable_titles(released) :
        \E r \in latest_rows(d, t) : r.revenue <= threshold }

under_min_log(titles) ==
    IF titles # {}
    THEN << LogRecord("under_min_revenue", <<>>),
            LogRecord("under_min_movies", sorted(titles)) >>
    ELSE << LogRecord("all_above_min_revenue", <<>>) >>

\* mutant: the second query is issued whether or not the first returned a row
min_revenue_queries_always_two(result) ==
    <<"threshold", "under_min">>

min_revenue_queries(result) ==
    IF Len(result) = 0
    THEN <<"threshold">>
    ELSE <<"threshold", "under_min">>

\* The body shared by the two copies of the check.
min_revenue_info(here, there) ==
    /\ pc = here
    /\ LET result == threshold_query(dump)
       IN  /\ queries' = queries \o min_revenue_queries(result)
           /\ IF Len(result) = 0
              THEN log' = log \o << LogRecord("no_revenue_data", <<>>) >>
              ELSE \E titles \in SUBSET may_be_under(dump, released_titles, result[1]) :
                      /\ must_be_under(dump, released_titles, result[1]) \subseteq titles
                      /\ log' = log \o << LogRecord("min_revenue", result) >>
                                    \o under_min_log(titles)
    /\ pc' = there
    /\ UNCHANGED <<remembered, inputs, worksheets, layout, assets, dashboard_elements, sqlmesh, ops,
                   tables, render, app>>

runner_log_min_revenue_info == min_revenue_info("_log_min_revenue_info", "done")

log_min_revenue_info == min_revenue_info("log_min_revenue_info", "done")

\* The state in which the diagnostics are called: the render has returned and
\* the tables hold whatever the transformation produced.
DumpRows == [title : {"A", "a"}, revenue : {1, 2}, loaded_date : {1, 2},
             this_year : BOOLEAN]

InitDiagnostics ==
    /\ draft_movies \in BoundedSeq(RawTitles, MaxTitles)
    /\ released_titles \in BoundedSeq(RawTitles, MaxTitles)
    /\ dump \in { d \in SUBSET DumpRows : Cardinality(d) <= MaxDumpRows }
    /\ released_movies_length = Len(released_titles)
    /\ scoreboard_length = 0
    /\ worst_picks_length = 0
    /\ best_picks_length = 0
    /\ worksheets = {"Draft", "Dashboard", "Manual Adds", "Multipliers and Exclusions"}
    /\ dashboard = BlankDashboard(released_movies_length + 5, dashboard_cols)
    /\ still_in_theaters = {}
    /\ zero_value_rows = {}
    /\ year = CurrentYear
    /\ formatting_first = TRUE
    /\ cycle = 1
    /\ calls = <<>>
    /\ config_files = <<>>
    /\ seen_draft_ids = {}
    /\ position = 0
    /\ synced = <<>>
    /\ validated = NoOutcome
    /\ retries = <<>>
    /\ remembered = NoCall
    /\ pc \in {"_log_missing_movies", "log_missing_movies"}
    /\ layout = NoLayout
    /\ assets = <<>>
    /\ dashboard_elements = <<>>
    /\ sqlmesh = "not_called"
    /\ ops = <<>>
    /\ queries = <<>>
    /\ log = <<>>

NextDiagnostics ==
    \/ runner_log_missing_movies
    \/ log_missing_movies
    \/ runner_log_min_revenue_info
    \/ log_min_revenue_info

SpecDiagnostics == InitDiagnostics /\ [][NextDiagnostics]_vars

\* ============================================================ run_dashboard
NoArg == [none |-> TRUE]

Formatted(tag, row, format) == [tag |-> tag, row |-> row, format |-> format]

\* run_dashboard up to runner.run(): the credentials are read from the
\* environment, ValueError when the variable is not set.
run_dashboard ==
    /\ pc = "idle"
    /\ \E gspread_credentials \in {"set", "not_set"} :
          pc' = IF gspread_credentials = "set" THEN "pre_run_hooks" ELSE "raised"
    /\ UNCHANGED <<remembered, inputs, worksheets, layout, assets, dashboard_elements, sqlmesh, ops,
                   tables, diagnostics, render, app>>

\* ---- _handle_missing_worksheets
sibling_creation(name, rows, cols, existing_worksheets) ==
    IF name \notin existing_worksheets
    THEN << Call("create_worksheet", name, Size(rows, cols)) >>
    ELSE <<>>

\* mutant: the Dashboard is deleted without looking whether it is there
dashboard_deletion_unguarded(existing_worksheets) ==
    << Call("delete_worksheet", "Dashboard", NoArg) >>

dashboard_deletion(existing_worksheets) ==
    IF "Dashboard" \in existing_worksheets
    THEN << Call("delete_worksheet", "Dashboard", NoArg) >>
    ELSE <<>>

\* mutant: the Dashboard is treated like its siblings, created only if absent
handle_missing_worksheets_calls_keeping(existing_worksheets) ==
    << Call("get_worksheet_names", "", NoArg) >>
    \o sibling_creation("Manual Adds", 100, 5, existing_worksheets)
    \o sibling_creation("Multipliers and Exclusions", 100, 3, existing_worksheets)
    \o sibling_creation("Dashboard", initial_rows, dashboard_cols, existing_worksheets)

handle_missing_worksheets_calls(existing_worksheets) ==
    << Call("get_worksheet_names", "", NoArg) >>
    \o sibling_creation("Manual Adds", 100, 5, existing_worksheets)
    \o sibling_creation("Multipliers and Exclusions", 100, 3, existing_worksheets)
    \o dashboard_deletion(existing_worksheets)
    \o << Call("create_worksheet", "Dashboard", Size(initial_rows, dashboard_cols)) >>

handle_missing_worksheets ==
    /\ pc = "pre_run_hooks"
    /\ perform(handle_missing_worksheets_calls(worksheets), FALSE,
               "DashboardWorksheet.generate")
    /\ UNCHANGED <<remembered, inputs, layout, assets, dashboard_elements, sqlmesh, tables, diagnostics,
                   still_in_theaters, zero_value_rows, year, formatting_first, cycle, app>>

\* ---- DashboardWorksheet.generate, called by the runner: the tables are
\* read (table_to_df can raise), the layout computed, the assets built.
DashboardWorksheet_generate ==
    /\ pc = "DashboardWorksheet.generate"
    /\ \E table_to_df \in {"returns", "raises"} :
          IF table_to_df = "returns"
          THEN /\ layout' = calculate_picks_table_layout(
                                scoreboard_length, released_movies_length,
                                worst_picks_length, best_picks_length)
               /\ assets' = generate_assets(scoreboard_length, released_movies_length,
                                            worst_picks_length, best_picks_length)
               /\ pc' = "write_assets"
          ELSE pc' = "raised" /\ UNCHANGED <<layout, assets>>
    /\ UNCHANGED <<remembered, inputs, worksheets, dashboard_elements, sqlmesh, ops,
                   tables, diagnostics, render, app>>

\* context['sheet_height'], set by generate
sheet_height_of(released_len) == released_len + 5

\* ---- the runner writes the assets in list order
write_dataframe_calls(list) ==
    [i \in DOMAIN list |-> Call("write_dataframe", "Dashboard", list[i])]

write_assets ==
    /\ pc = "write_assets"
    /\ perform(write_dataframe_calls(assets), FALSE,
               IF formatting_first THEN "get_formatting" ELSE "post_write_hooks")
    /\ UNCHANGED <<remembered, inputs, layout, assets, dashboard_elements, sqlmesh, tables, diagnostics,
                   still_in_theaters, zero_value_rows, year, formatting_first, cycle, app>>

\* ---- get_formatting: WorksheetFormatting(notes, column_widths).  The
\* widths other than that of G are one call here.
get_formatting_calls ==
    << Call("set_column_width", "Dashboard", Width("A:F H:Y", 0)),
       Call("set_column_width", "Dashboard", Width("G", width_G)),
       Call("set_notes", "Dashboard", NoArg) >>

get_formatting ==
    /\ pc = "get_formatting"
    /\ perform(get_formatting_calls, FALSE,
               IF formatting_first THEN "post_write_hooks" ELSE "post_run_hooks")
    /\ UNCHANGED <<remembered, inputs, layout, assets, dashboard_elements, sqlmesh, tables, diagnostics,
                   still_in_theaters, zero_value_rows, year, formatting_first, cycle, app>>

\* ---- post-write hooks
\* mutant: the title is formatted before its cells are merged
title_calls_format_before_merge(column, merged, row, text, format) ==
    << Call("write_values", "Dashboard", Values(column, row, text)),
       Call("format_range", "Dashboard", Formatted(column, row, format)),
       Call("merge_cells", "Dashboard", Range(merged, row)) >>

\* title hooks: write the title, merge its cells, format it
title_calls(column, merged, row, text, format) ==
    << Call("write_values", "Dashboard", Values(column, row, text)),
       Call("merge_cells", "Dashboard", Range(merged, row)),
       Call("format_range", "Dashboard", Formatted(column, row, format)) >>

\* header hook and data formatting hook of a table; the ranges of the data
\* columns, which all end at the same row, are one call here.
table_format_calls(columns, header_row, end_row) ==
    << Call("format_range", "Dashboard", Formatted(columns, header_row, "HEADER_FORMAT")),
       Call("format_range", "Dashboard", Formatted(columns, end_row, "data")) >>

scoreboard_hook_calls(scoreboard_len) ==
    title_calls("B", "B:F", 2, "dashboard_name", "TITLE_FORMAT")
    \o table_format_calls("B:G", 4, 4 + scoreboard_len)

\* _clear_zero_values: one write per row whose value is 0, in row order
RECURSIVE clear_zero_values_calls(_)
clear_zero_values_calls(rows) ==
    IF rows = {}
    THEN <<>>
    ELSE LET df_idx == CHOOSE r \in rows : \A q \in rows : r <= q
         IN  << Call("write_values", "Dashboard", Values("V", 4 + df_idx, "")) >>
             \o clear_zero_values_calls(rows \ {df_idx})

\* mutant: a dashboard of the current year can be done as well
dashboard_done_updating_any_year(not_no, released_len, config_year) ==
    not_no = {} /\ released_len > 0

\* every row's 'Still In Theaters' is 'No', there is a row, the year is over
dashboard_done_updating(not_no, released_len, config_year) ==
    not_no = {} /\ released_len > 0 /\ config_year < CurrentYear

\* log_string, as the list of its parts; the two timestamps are left out
log_string_of(done) ==
    << "Dashboard Last Updated" >>
    \o (IF done THEN << "Dashboard is done updating" >> ELSE <<>>)
    \o << "Data Updated Through" >>

\* mutant: column G is never widened
write_timestamp_metadata_calls_no_widening(done) ==
    << Call("write_values", "Dashboard", Values("G", 2, log_string_of(done))),
       Call("format_range", "Dashboard", Formatted("G", 2, "CENTER")) >>

\* _write_timestamp_metadata, after the query for the newest timestamp
write_timestamp_metadata_calls(done) ==
    << Call("write_values", "Dashboard", Values("G", 2, log_string_of(done))),
       Call("format_range", "Dashboard", Formatted("G", 2, "CENTER")) >>
    \o (IF done
        THEN << Call("set_column_width", "Dashboard", Width("G", width_G_done)) >>
        ELSE <<>>)

\* max(published_timestamp_utc) of an empty table is NULL, which has no
\* strftime: the hook raises before it writes.
published_timestamp_missing(d) == d = {}

released_movies_hook_calls(released_len, not_no, zero_rows, config_year, d) ==
    title_calls("I", "I:X", 2, "Released Movies", "TITLE_FORMAT")
    \o table_format_calls("I:X", 4, sheet_height_of(released_len))
    \o << Call("add_conditional_format", "Dashboard",
               Range("X", sheet_height_of(released_len))) >>
    \o clear_zero_values_calls(zero_rows)
    \o (IF published_timestamp_missing(d)
        THEN <<>>
        ELSE write_timestamp_metadata_calls(
                 dashboard_done_updating(not_no, released_len, config_year)))

picks_hook_calls(asset, text) ==
    title_calls("B", "B:G", asset.row - 1, text, "PICKS_TITLE_FORMAT")
    \o table_format_calls("B:G", asset.row, asset.row + Len(asset.df))

asset_hook_calls(asset, released_len, not_no, zero_rows, config_year, d) ==
    CASE asset.name = "Scoreboard" -> scoreboard_hook_calls(Len(asset.df))
      [] asset.name = "ReleasedMovies" ->
            released_movies_hook_calls(released_len, not_no, zero_rows, config_year, d)
      [] asset.name = "WorstPicks" -> picks_hook_calls(asset, "Worst Picks")
      [] asset.name = "BestPicks" -> picks_hook_calls(asset, "Best Picks")

RECURSIVE post_write_hook_calls(_, _, _, _, _, _)
post_write_hook_calls(list, released_len, not_no, zero_rows, config_year, d) ==
    IF list = <<>>
    THEN <<>>
    ELSE asset_hook_calls(Head(list), released_len, not_no, zero_rows, config_year, d)
         \o (IF Head(list).name = "ReleasedMovies" /\ published_timestamp_missing(d)
             THEN <<>>
             ELSE post_write_hook_calls(Tail(list), released_len, not_no, zero_rows,
                                        config_year, d))

post_write_hooks ==
    /\ pc = "post_write_hooks"
    /\ perform(post_write_hook_calls(assets, released_movies_length, still_in_theaters,
                                     zero_value_rows, year, dump),
               published_timestamp_missing(dump),
               IF formatting_first THEN "post_run_hooks" ELSE "get_formatting")
    /\ UNCHANGED <<remembered, inputs, layout, assets, dashboard_elements, sqlmesh, tables, diagnostics,
                   still_in_theaters, zero_value_rows, year, formatting_first, cycle, app>>

\* ---- post-run hooks
\* runner.context.get('sheet_height', 100): generate has set the key
context_sheet_height(generated, released_len) ==
    IF generated THEN sheet_height_of(released_len) ELSE default_sheet_height

\* mutant: the worksheet keeps the size it was created with
resize_sheet_calls_none(rows) ==
    <<>>

resize_sheet_calls(rows) ==
    << Call("resize_sheet", "Dashboard", Size(rows, dashboard_cols)) >>

resize_sheet ==
    /\ pc = "post_run_hooks"
    /\ perform(resize_sheet_calls(context_sheet_height(layout # NoLayout,
                                                       released_movies_length)),
               FALSE, "_adjust_worksheet_order")
    /\ UNCHANGED <<remembered, inputs, layout, assets, dashboard_elements, sqlmesh, tables, diagnostics,
                   still_in_theaters, zero_value_rows, year, formatting_first, cycle, app>>

adjust_worksheet_order ==
    /\ pc = "_adjust_worksheet_order"
    /\ perform(<< Call("reorder_worksheets", "", NoArg) >>, FALSE, "_log_missing_movies")
    /\ UNCHANGED <<remembered, inputs, layout, assets, dashboard_elements, sqlmesh, tables, diagnostics,
                   still_in_theaters, zero_value_rows, year, formatting_first, cycle, app>>

\* ====================================================== gsheet.load_dashboard_data
\* The entry of load_dashboard_data; its first statement is the constructor
\* GoogleSheetDashboard(config_dict).
load_dashboard_data ==
    /\ pc = "idle"
    /\ pc' = "load_dashboard_data"
    /\ UNCHANGED <<remembered, inputs, worksheets, layout, assets, dashboard_elements, sqlmesh, ops,
                   tables, diagnostics, render, app>>

picks_header_calls(lay, add_picks_table) ==
    IF add_picks_table
    THEN IF lay.add_both_picks_tables
         THEN << Call("format_range", "Dashboard",
                      Formatted("B:G", lay.worst_picks_row_num, "HEADER_FORMAT")),
                 Call("format_range", "Dashboard",
                      Formatted("B:G", lay.best_picks_row_num, "HEADER_FORMAT")) >>
         ELSE << Call("format_range", "Dashboard",
                      Formatted("B:G", lay.worst_picks_row_num, "HEADER_FORMAT")) >>
    ELSE <<>>

\* update_dashboard up to the query for the newest timestamp
update_dashboard_write_calls(elements) == write_dataframe_calls(elements)

\* update_dashboard from the write of G2 on; the widths other than that of
\* G are one call
update_dashboard_format_calls(lay, add_picks_table, zero_rows, done) ==
    << Call("write_values", "Dashboard", Values("G", 2, log_string_of(done))),
       Call("format_range", "Dashboard", Formatted("G", 2, "CENTER")),
       Call("auto_resize_columns", "Dashboard", Range("A:G", 0)),
       Call("auto_resize_columns", "Dashboard", Range("H:W", 0)),
       Call("format_range", "Dashboard", Formatted("B:G", 4, "HEADER_FORMAT")) >>
    \o picks_header_calls(lay, add_picks_table)
    \o << Call("format_range", "Dashboard", Formatted("I:X", 4, "HEADER_FORMAT")),
          Call("read", "Dashboard", NoArg) >>
    \o clear_zero_values_calls(zero_rows)
    \o << Call("set_column_width", "Dashboard", Width("A:F H:Y", 0)),
          Call("set_column_width", "Dashboard", Width("G", width_G)),
          Call("set_column_width", "Dashboard", Width("R W X", 0)) >>
    \o (IF done
        THEN << Call("set_column_width", "Dashboard", Width("G", width_G_done)) >>
        ELSE <<>>)

update_dashboard_calls(elements, lay, add_picks_table, not_no, zero_rows, config_year, d) ==
    update_dashboard_write_calls(elements)
    \o (IF published_timestamp_missing(d)
        THEN <<>>
        ELSE update_dashboard_format_calls(
                 lay, add_picks_table, zero_rows,
                 dashboard_done_updating(not_no, Len(elements[2].df), config_year)))

update_dashboard ==
    /\ pc = "update_dashboard"
    /\ perform(update_dashboard_calls(dashboard_elements, layout,
                                      add_picks_table_of(layout, worst_picks_length),
                                      still_in_theaters, zero_value_rows, year, dump),
               published_timestamp_missing(dump), "update_titles")
    /\ UNCHANGED <<remembered, inputs, layout, assets, dashboard_elements, sqlmesh, tables, diagnostics,
                   still_in_theaters, zero_value_rows, year, formatting_first, cycle, app>>

\* legacy title: written, formatted, then merged
legacy_title_calls(column, merged, row, text, format) ==
    << Call("write_values", "Dashboard", Values(column, row, text)),
       Call("format_range", "Dashboard", Formatted(column, row, format)),
       Call("merge_cells", "Dashboard", Range(merged, row)) >>

update_titles_calls(lay, add_picks_table) ==
    legacy_title_calls("B", "B:F", 2, "dashboard_name", "TITLE_FORMAT")
    \o legacy_title_calls("I", "I:X", 2, "Released Movies", "TITLE_FORMAT")
    \o (IF add_picks_table
        THEN legacy_title_calls("B", "B:G", lay.worst_picks_row_num - 1, "Worst Picks",
                                "PICKS_TITLE_FORMAT")
             \o (IF lay.add_both_picks_tables
                 THEN legacy_title_calls("B", "B:G", lay.best_picks_row_num - 1,
                                         "Best Picks", "PICKS_TITLE_FORMAT")
                 ELSE <<>>)
        ELSE <<>>)

update_titles ==
    /\ pc = "update_titles"
    /\ perform(update_titles_calls(layout, add_picks_table_of(layout, worst_picks_length)),
               FALSE, "apply_conditional_formatting")
    /\ UNCHANGED <<remembered, inputs, layout, assets, dashboard_elements, sqlmesh, tables, diagnostics,
                   still_in_theaters, zero_value_rows, year, formatting_first, cycle, app>>

apply_conditional_formatting ==
    /\ pc = "apply_conditional_formatting"
    /\ perform(<< Call("add_conditional_format", "Dashboard",
                       Range("X", sheet_height_of(released_movies_length))) >>,
               FALSE, "add_comments_to_dashboard")
    /\ UNCHANGED <<remembered, inputs, layout, assets, dashboard_elements, sqlmesh, tables, diagnostics,
                   still_in_theaters, zero_value_rows, year, formatting_first, cycle, app>>

add_comments_to_dashboard ==
    /\ pc = "add_comments_to_dashboard"
    /\ perform(<< Call("set_notes", "Dashboard", NoArg) >>, FALSE, "log_missing_movies")
    /\ UNCHANGED <<remembered, inputs, layout, assets, dashboard_elements, sqlmesh, tables, diagnostics,
                   still_in_theaters, zero_value_rows, year, formatting_first, cycle, app>>

\* ------------------------------------------------------------- the schedule
\* The function runs once a day and is retried when it raises: the next
\* cycle starts from the spreadsheet the last one left, over the same data.
next_cycle ==
    /\ pc \in {"raised", "done"}
    /\ cycle < MaxCycles
    /\ cycle' = cycle + 1
    /\ pc' = "idle"
    /\ layout' = NoLayout
    /\ assets' = <<>>
    /\ dashboard_elements' = <<>>
    /\ ops' = <<>>
    /\ calls' = <<>>
    /\ queries' = <<>>
    /\ log' = <<>>
    /\ UNCHANGED <<remembered, inputs, worksheets, sqlmesh, tables, dashboard, still_in_theaters,
                   zero_value_rows, year, formatting_first, app>>

\* ------------------------------------------------------- the render cycles
\* Any spreadsheet a run can find (an existing Dashboard holds what an
\* earlier run left) and tables of each shape the cycle distinguishes: no
\* released movie, one, or enough of them for picks tables.
InitRender ==
    /\ scoreboard_length = 1
    /\ released_movies_length \in {0, 1, MaxReleased}
    /\ worst_picks_length \in {0, MaxWorst}
    /\ best_picks_length = MaxBest
    /\ still_in_theaters \in SUBSET ({1, released_movies_length}
                                      \cap (1..released_movies_length))
    /\ zero_value_rows \in SUBSET ({1} \cap (1..released_movies_length))
    /\ year \in {CurrentYear - 1, CurrentYear}
    /\ formatting_first \in BOOLEAN
    /\ \E spreadsheet \in InitialSpreadsheets :
          /\ spreadsheet.dashboard.exists <=> "Dashboard" \in spreadsheet.worksheets
          /\ worksheets = spreadsheet.worksheets
          /\ dashboard = spreadsheet.dashboard
    /\ draft_movies = << StrValue("a") >>
    /\ released_titles = [i \in 1..released_movies_length |-> StrValue("A")]
    /\ dump \in { {}, {[title |-> "A", revenue |-> 1, loaded_date |-> 1,
                        this_year |-> TRUE]} }
    /\ cycle = 1
    /\ calls = <<>>
    /\ pc = "idle"
    /\ layout = NoLayout
    /\ assets = <<>>
    /\ dashboard_elements = <<>>
    /\ sqlmesh = "not_called"
    /\ ops = <<>>
    /\ queries = <<>>
    /\ log = <<>>
    /\ config_files = <<>>
    /\ seen_draft_ids = {}
    /\ position = 0
    /\ synced = <<>>
    /\ validated = NoOutcome
    /\ retries = <<>>
    /\ remembered = NoCall

NextRender ==
    \/ run_dashboard
    \/ handle_missing_worksheets
    \/ DashboardWorksheet_generate
    \/ write_assets
    \/ get_formatting
    \/ post_write_hooks
    \/ resize_sheet
    \/ adjust_worksheet_order
    \/ runner_log_missing_movies
    \/ runner_log_min_revenue_info
    \/ load_dashboard_data
    \/ GoogleSheetDashboard__init__
    \/ update_dashboard
    \/ update_titles
    \/ apply_conditional_formatting
    \/ add_comments_to_dashboard
    \/ log_missing_movies
    \/ log_min_revenue_info
    \/ next_cycle

SpecRender == InitRender /\ [][NextRender]_vars

\* ======================================================== update_dashboards
\* The value of a key of a parsed YAML file: its Python type and its content;
\* Absent when the key is not in the file.
Absent == [type |-> "absent"]
IntValue(n) == [type |-> "int", value |-> n]

\* required_fields of validate_config, in the order of the dict.
required_fields ==
    << [field |-> "year", expected_type |-> "int"],
       [field |-> "name", expected_type |-> "str"],
       [field |-> "sheet_name", expected_type |-> "str"],
       [field |-> "draft_id", expected_type |-> "str"],
       [field |-> "update_type", expected_type |-> "str"],
       [field |-> "gspread_credentials_name", expected_type |-> "str"] >>

\* The keys looked for when update_type is 's3', in the order of the checks.
s3_fields == <<"bucket", "s3_access_key_id_var_name", "s3_secret_access_key_var_name">>

\* The parsed config files: every key absent, of the wrong type, or of the
\* expected type with a value the checks accept or reject.
Configs ==
    [year : {Absent, StrValue("2026"), IntValue(CurrentYear - 2),
             IntValue(CurrentYear - 1), IntValue(CurrentYear)},
     name : {Absent, IntValue(1), StrValue("n")},
     sheet_name : {Absent, IntValue(1), StrValue("s")},
     draft_id : {Absent, IntValue(1), StrValue("d1"), StrValue("d2")},
     update_type : {Absent, IntValue(1), StrValue("s3"), StrValue("web"), StrValue("ftp")},
     gspread_credentials_name : {Absent, IntValue(1), StrValue("g")},
     bucket : {Absent, StrValue("b")},
     s3_access_key_id_var_name : {Absent, StrValue("k")},
     s3_secret_access_key_var_name : {Absent, StrValue("v")}]

isinstance(value, expected_type) == value.type = expected_type

\* mutant: the loop over the required fields stops at the first missing one
missing_fields_first_only(config) ==
    LET absent(entry) == config[entry.field] = Absent
        found == SelectSeq(required_fields, absent)
    IN  IF found = <<>> THEN <<>> ELSE << found[1].field >>

\* validate_config: the names appended to missing_fields, in order.
missing_fields(config) ==
    LET absent(entry) == config[entry.field] = Absent
        found == SelectSeq(required_fields, absent)
    IN  [i \in DOMAIN found |-> found[i].field]

\* One entry of type_errors: the field it starts with and the check that
\* appended it.
ErrorItem(field, check) == [field |-> field, check |-> check]

\* validate_config: the entries appended to type_errors, in order.
type_errors(config) ==
    LET mistyped(entry) ==
            /\ config[entry.field] # Absent
            /\ ~isinstance(config[entry.field], entry.expected_type)
        found == SelectSeq(required_fields, mistyped)
        absent(field) == config[field] = Absent
        lacking == SelectSeq(s3_fields, absent)
    IN  [i \in DOMAIN found |-> ErrorItem(found[i].field, "expected type")]
        \o (IF /\ isinstance(config.year, "int")
               /\ config.year.value \notin {CurrentYear - 1, CurrentYear}
            THEN << ErrorItem("year", "must be last year or this year") >>
            ELSE <<>>)
        \o (IF /\ config.update_type # Absent
               /\ config.update_type \notin {StrValue("s3"), StrValue("web")}
            THEN << ErrorItem("update_type", "must be 's3' or 'web'") >>
            ELSE <<>>)
        \o (IF config.update_type = StrValue("s3")
            THEN [i \in DOMAIN lacking |->
                     ErrorItem(lacking[i], "required when update_type is 's3'")]
            ELSE <<>>)

Raised(exception, message) == [raised |-> exception, message |-> message]
Returned(value) == [returned |-> value]

\* validate_config: the lines of the one ValueError it raises, or the config
\* it returns.
validate_config(config) ==
    LET errors ==
            (IF missing_fields(config) # <<>>
             THEN << [line |-> "Missing required fields",
                      items |-> missing_fields(config)] >>
             ELSE <<>>)
            \o (IF type_errors(config) # <<>>
                THEN << [line |-> "Type/validation errors",
                         items |-> type_errors(config)] >>
                ELSE <<>>)
    IN  IF errors # <<>>
        THEN Raised("ValueError", errors)
        ELSE Returned(config)

validate_config_raises(config) ==
    "raised" \in DOMAIN validate_config(config)

\* update_dashboards up to the loop: returns when there is no config file.
update_dashboards ==
    /\ pc = "update_dashboards"
    /\ IF config_files = <<>>
       THEN pc' = "returned" /\ UNCHANGED position
       ELSE pc' = "get_config_dict" /\ position' = 1
    /\ UNCHANGED <<remembered, inputs, worksheets, layout, assets, dashboard_elements,
                   sqlmesh, ops, tables, diagnostics, render, config_files,
                   seen_draft_ids, synced, validated, retries>>

\* One pass of the loop up to the sync: get_config_dict validates this file
\* only, then its draft id is compared with those of the files before it.
get_config_dict ==
    /\ pc = "get_config_dict"
    /\ validated' = validate_config(config_files[position])
    /\ IF validate_config_raises(config_files[position])
       THEN pc' = "raised" /\ UNCHANGED seen_draft_ids
       ELSE LET config_dict == validate_config(config_files[position]).returned
            IN  IF config_dict.draft_id \in seen_draft_ids
                THEN pc' = "raised" /\ UNCHANGED seen_draft_ids
                ELSE /\ seen_draft_ids' = seen_draft_ids \cup {config_dict.draft_id}
                     /\ pc' = "google_sheet_sync"
    /\ UNCHANGED <<remembered, inputs, worksheets, layout, assets, dashboard_elements,
                   sqlmesh, ops, tables, diagnostics, render, config_files, position,
                   synced, retries>>

\* google_sheet_sync(config_dict=config_dict), last statement of the loop
\* body.  etl.google_sheet_sync takes config_path, so with that function the
\* call raises TypeError before anything runs; with a function that takes
\* config_dict the transformation and the render run for this config and
\* either return or raise.
sync_outcomes == {"type_error", "synced", "sync_raised"}

google_sheet_sync_call ==
    /\ pc = "google_sheet_sync"
    /\ \E outcome \in sync_outcomes :
        /\ synced' = IF outcome = "type_error" THEN synced ELSE Append(synced, position)
        /\ IF outcome = "synced"
           THEN IF position < Len(config_files)
                THEN pc' = "get_config_dict" /\ position' = position + 1
                ELSE pc' = "returned" /\ UNCHANGED position
           ELSE pc' = "raised" /\ UNCHANGED position
    /\ UNCHANGED <<remembered, inputs, worksheets, layout, assets, dashboard_elements,
                   sqlmesh, ops, tables, diagnostics, render, config_files,
                   seen_draft_ids, validated, retries>>

\* The files of config_dir the runs of update_dashboards are explored on:
\* complete but for the draft id, with a year, an update type and s3 keys
\* that validate_config accepts or rejects.
ConfigFile(config_year, update_type, s3_there, draft_id) ==
    [year |-> IntValue(config_year),
     name |-> StrValue("n"),
     sheet_name |-> StrValue("s"),
     draft_id |-> draft_id,
     update_type |-> StrValue(update_type),
     gspread_credentials_name |-> StrValue("g"),
     bucket |-> IF s3_there THEN StrValue("b") ELSE Absent,
     s3_access_key_id_var_name |-> IF s3_there THEN StrValue("k") ELSE Absent,
     s3_secret_access_key_var_name |-> IF s3_there THEN StrValue("v") ELSE Absent]

ConfigDir ==
    { ConfigFile(config_year, update_type, s3_there, draft_id) :
        config_year \in {CurrentYear - 2, CurrentYear - 1, CurrentYear},
        update_type \in {"s3", "web", "ftp"},
        s3_there \in BOOLEAN,
        draft_id \in {StrValue("d1"), StrValue("d2"), Absent} }

InitAppOn(directories) ==
    /\ config_files \in directories
    /\ seen_draft_ids = {}
    /\ position = 0
    /\ synced = <<>>
    /\ validated = NoOutcome
    /\ retries = <<>>
    /\ remembered = NoCall
    /\ pc = "update_dashboards"
    /\ scoreboard_length = 0
    /\ released_movies_length = 0
    /\ worst_picks_length = 0
    /\ best_picks_length = 0
    /\ worksheets = {"Draft"}
    /\ dashboard = NoDashboard
    /\ still_in_theaters = {}
    /\ zero_value_rows = {}
    /\ year = CurrentYear
    /\ formatting_first = TRUE
    /\ cycle = 1
    /\ calls = <<>>
    /\ layout = NoLayout
    /\ assets = <<>>
    /\ dashboard_elements = <<>>
    /\ sqlmesh = "not_called"
    /\ ops = <<>>
    /\ draft_movies = <<>>
    /\ released_titles = <<>>
    /\ dump = {}
    /\ queries = <<>>
    /\ log = <<>>

InitApp == InitAppOn(BoundedSeq(ConfigDir, MaxConfigs))

NextApp ==
    \/ update_dashboards
    \/ get_config_dict
    \/ google_sheet_sync_call

SpecApp == InitApp /\ [][NextApp]_vars

\* validate_config on every parsed file, one file in the directory.
InitConfig == InitAppOn({ <<config>> : config \in Configs })

SpecConfig == InitConfig /\ [][NextApp]_vars

\* ------------------------------------------------------------ modal.Retries
\* Delay before the n-th retry: initial_delay * backoff_coefficient^(n - 1).
retry_delay(n) == initial_delay * backoff_coefficient ^ (n - 1)

\* mutant: one retry more than max_retries
modal_retry_one_more ==
    /\ pc = "raised"
    /\ Len(retries) <= max_retries
    /\ retries' = Append(retries, retry_delay(Len(retries) + 1))
    /\ pc' = "update_dashboards"
    /\ position' = 0
    /\ seen_draft_ids' = {}
    /\ validated' = NoOutcome
    /\ UNCHANGED <<remembered, inputs, worksheets, layout, assets, dashboard_elements,
                   sqlmesh, ops, tables, diagnostics, render, config_files, synced>>

\* An attempt of update_dashboards ended with an exception and fewer than
\* max_retries retries were made: after the delay the function is called
\* again, with fresh locals; what the failed attempt synced stays synced.
modal_retry ==
    /\ pc = "raised"
    /\ Len(retries) < max_retries
    /\ retries' = Append(retries, retry_delay(Len(retries) + 1))
    /\ pc' = "update_dashboards"
    /\ position' = 0
    /\ seen_draft_ids' = {}
    /\ validated' = NoOutcome
    /\ UNCHANGED <<remembered, inputs, worksheets, layout, assets, dashboard_elements,
                   sqlmesh, ops, tables, diagnostics, render, config_files, synced>>

\* The directories the retried invocations are explored on: files that are
\* valid, invalid, or share a draft id.
RetriedConfigDir ==
    { ConfigFile(CurrentYear, "web", FALSE, StrValue("d1")),
      ConfigFile(CurrentYear, "s3", TRUE, StrValue("d2")),
      ConfigFile(CurrentYear - 2, "web", FALSE, StrValue("d2")) }

InitRetries == InitAppOn(BoundedSeq(RetriedConfigDir, MaxConfigs))

NextRetries ==
    \/ update_dashboards
    \/ get_config_dict
    \/ google_sheet_sync_call
    \/ modal_retry

\* Modal runs the scheduled function and its retries to their end.
SpecRetries == InitRetries /\ [][NextRetries]_vars /\ WF_vars(NextRetries)

\* ------------------------------------ calls of calculate_picks_table_layout
\* The arguments the repeated calls are explored on: both tables, one table
\* and no table are among the layouts.
CallArguments ==
    {0, MaxScoreboard} \X {0, MaxReleased - 6, MaxReleased}
        \X {1, MaxWorst} \X {1, MaxBest}

\* One call of calculate_picks_table_layout with any arguments; the call and
\* what it returned may be remembered, to be compared with a later call.
layout_call ==
    /\ pc = "idle"
    /\ \E arguments \in CallArguments :
        /\ scoreboard_length' = arguments[1]
        /\ released_movies_length' = arguments[2]
        /\ worst_picks_length' = arguments[3]
        /\ best_picks_length' = arguments[4]
        /\ layout' = calculate_picks_table_layout(arguments[1], arguments[2],
                                                  arguments[3], arguments[4])
        /\ remembered' \in
              { [made |-> TRUE, arguments |-> arguments, returned |-> layout',
                 later_calls |-> 0] }
              \cup (IF remembered.made
                    THEN { [remembered EXCEPT
                              !.later_calls = Min(remembered.later_calls + 1,
                                                  MaxLaterCalls)] }
                    ELSE { remembered })
    /\ UNCHANGED <<worksheets, pc, assets, dashboard_elements, sqlmesh, ops>>
    /\ UNCHANGED <<tables, diagnostics, render, app>>

InitLayoutCalls ==
    /\ \E arguments \in CallArguments :
        /\ scoreboard_length = arguments[1]
        /\ released_movies_length = arguments[2]
        /\ worst_picks_length = arguments[3]
        /\ best_picks_length = arguments[4]
    /\ layout = NoLayout
    /\ remembered = NoCall
    /\ pc = "idle"
    /\ worksheets = {"Draft"}
    /\ dashboard = NoDashboard
    /\ still_in_theaters = {}
    /\ zero_value_rows = {}
    /\ year = CurrentYear
    /\ formatting_first = TRUE
    /\ cycle = 1
    /\ calls = <<>>
    /\ config_files = <<>>
    /\ seen_draft_ids = {}
    /\ position = 0
    /\ synced = <<>>
    /\ validated = NoOutcome
    /\ retries = <<>>
    /\ assets = <<>>
    /\ dashboard_elements = <<>>
    /\ sqlmesh = "not_called"
    /\ ops = <<>>
    /\ draft_movies = <<>>
    /\ released_titles = <<>>
    /\ dump = {}
    /\ queries = <<>>
    /\ log = <<>>

NextLayoutCalls == layout_call

SpecLayoutCalls == InitLayoutCalls /\ [][NextLayoutCalls]_vars

\* =================================================================== claims
LayoutComputed == layout # NoLayout

\* The inputs' available height, from the claim's own arithmetic.
AvailableHeight == released_movies_length - scoreboard_length - 3
UsableHeight == AvailableHeight - 4

AssetsNamed(list, name) == { i \in DOMAIN list : list[i].name = name }

FirstRows(df, n) == Len(df) = n /\ \A i \in 1..n : df[i] = i

\* C1: add_both_picks_tables is true iff available_height
\* (= released - scoreboard - 3) >= 6 and worst_picks_length > 1 and
\* best_picks_length > 1.
C1_BothIff ==
    LayoutComputed =>
        /\ layout.available_height = AvailableHeight
        /\ layout.add_both_picks_tables <=>
              (AvailableHeight >= 6 /\ worst_picks_length > 1 /\ best_picks_length > 1)

C1_Witness ==
    /\ LayoutComputed
    /\ layout.add_both_picks_tables
    /\ AvailableHeight = 6

\* C2: 0 <= worst_picks_height <= worst_picks_length and
\* 0 <= best_picks_height <= best_picks_length for every input.
C2_HeightsCapped ==
    LayoutComputed =>
        /\ 0 <= layout.worst_picks_height
        /\ layout.worst_picks_height <= worst_picks_length
        /\ 0 <= layout.best_picks_height
        /\ layout.best_picks_height <= best_picks_length

\* both caps bind: each table has more room than data
C2_Witness ==
    /\ LayoutComputed
    /\ layout.add_both_picks_tables
    /\ UsableHeight \div 2 > worst_picks_length
    /\ layout.worst_picks_height = worst_picks_length
    /\ layout.best_picks_height = best_picks_length

\* C3: when both tables are shown, worst_picks_height is
\* min(usable_height div 2, worst_picks_length) and best_picks_height is
\* min(usable_height - worst_picks_height, best_picks_length), with
\* usable_height = available_height - 4.
C3_BothHeights ==
    (LayoutComputed /\ layout.add_both_picks_tables) =>
        /\ layout.worst_picks_height =
              (IF UsableHeight \div 2 <= worst_picks_length
               THEN UsableHeight \div 2 ELSE worst_picks_length)
        /\ layout.best_picks_height =
              (IF UsableHeight - layout.worst_picks_height <= best_picks_length
               THEN UsableHeight - layout.worst_picks_height ELSE best_picks_length)

\* odd usable height: the best-picks table gets the extra row
C3_Witness ==
    /\ LayoutComputed
    /\ layout.add_both_picks_tables
    /\ UsableHeight % 2 = 1
    /\ layout.best_picks_height = layout.worst_picks_height + 1

\* C4: in the single-table fallback best_picks_height = 0 and
\* worst_picks_height = min(available_height, worst_picks_length) if
\* available_height > 0 and worst_picks_length > 1, else 0.
C4_Fallback ==
    (LayoutComputed /\ ~layout.add_both_picks_tables) =>
        /\ layout.best_picks_height = 0
        /\ layout.worst_picks_height =
              (IF AvailableHeight > 0 /\ worst_picks_length > 1
               THEN (IF AvailableHeight <= worst_picks_length
                     THEN AvailableHeight ELSE worst_picks_length)
               ELSE 0)

C4_Witness ==
    /\ LayoutComputed
    /\ ~layout.add_both_picks_tables
    /\ layout.worst_picks_height > 0
    /\ layout.worst_picks_height < worst_picks_length

\* C5: best_picks_row_num is None exactly when add_both_picks_tables is
\* false; otherwise it is worst_picks_row_num + 1 + worst_picks_height + 2.
C5_BestRowNum ==
    LayoutComputed =>
        /\ (layout.best_picks_row_num = None) <=> ~layout.add_both_picks_tables
        /\ layout.add_both_picks_tables =>
              layout.best_picks_row_num =
                  layout.worst_picks_row_num + 1 + layout.worst_picks_height + 2

C5_Witness ==
    /\ LayoutComputed
    /\ layout.add_both_picks_tables
    /\ layout.best_picks_row_num # None
    /\ layout.worst_picks_height >= 2

\* C6: worst_picks_row_num = 5 + scoreboard_length + 2 for every input,
\* also when no picks table is shown.
C6_WorstRowNum ==
    LayoutComputed => layout.worst_picks_row_num = 5 + scoreboard_length + 2

C6_Witness ==
    /\ LayoutComputed
    /\ layout.worst_picks_height = 0
    /\ ~layout.add_both_picks_tables
    /\ scoreboard_length > 0
    /\ layout.worst_picks_row_num = 7 + scoreboard_length

\* C7: the cell rectangles of the generated assets (title row, header row
\* and data rows across the asset's columns: B-G for Scoreboard and the
\* picks tables, I-X for ReleasedMovies) are pairwise disjoint.
C7_AssetsDisjoint ==
    pc = "generated" =>
        /\ \A i \in DOMAIN assets :
              asset_columns(assets[i]) =
                  (IF assets[i].name = "ReleasedMovies" THEN ColI..ColX ELSE ColB..ColG)
        /\ \A i, j \in DOMAIN assets :
              i < j => asset_cells(assets[i]) \cap asset_cells(assets[j]) = {}

C7_Witness ==
    /\ pc = "generated"
    /\ Len(assets) = 4
    /\ scoreboard_length > 0

\* C8: generate includes a WorstPicks asset iff worst_picks_height > 0 and
\* worst_picks_length > 1; it is anchored at B{worst_picks_row_num} and
\* holds exactly the first worst_picks_height rows of the worst-picks data.
C8_WorstAsset ==
    pc = "generated" =>
        /\ (AssetsNamed(assets, "WorstPicks") # {}) <=>
              (layout.worst_picks_height > 0 /\ worst_picks_length > 1)
        /\ \A i \in AssetsNamed(assets, "WorstPicks") :
              /\ assets[i].col = ColB
              /\ assets[i].row = layout.worst_picks_row_num
              /\ FirstRows(assets[i].df, layout.worst_picks_height)

\* a WorstPicks asset truncated below the data length
C8_Witness ==
    /\ pc = "generated"
    /\ AssetsNamed(assets, "WorstPicks") # {}
    /\ layout.worst_picks_height < worst_picks_length

\* C9: a BestPicks asset is included iff add_both_picks_tables, in
\* DashboardWorksheet.generate and in GoogleSheetDashboard.__init__; it is
\* anchored at B{best_picks_row_num}, holds exactly the first
\* best_picks_height rows, and a WorstPicks asset always comes with it.
BestAssetIn(list) ==
    /\ (AssetsNamed(list, "BestPicks") # {}) <=> layout.add_both_picks_tables
    /\ AssetsNamed(list, "BestPicks") # {} => AssetsNamed(list, "WorstPicks") # {}
    /\ \A i \in AssetsNamed(list, "BestPicks") :
          /\ list[i].col = ColB
          /\ list[i].row = layout.best_picks_row_num
          /\ FirstRows(list[i].df, layout.best_picks_height)

C9_BestAsset ==
    /\ pc = "generated" => BestAssetIn(assets)
    /\ dashboard_elements # <<>> => BestAssetIn(dashboard_elements)

C9_Witness ==
    /\ dashboard_elements # <<>>
    /\ AssetsNamed(dashboard_elements, "BestPicks") # {}
    /\ layout.best_picks_height < best_picks_length

\* C10: in google_sheet_sync run_sqlmesh_plan completes before the dashboard
\* load starts, and if it raises the exception propagates: no dashboard
\* load and no spreadsheet mutation happens in that run.
MutationsIssued == { i \in DOMAIN ops : ops[i] \in Mutations }

C10_SqlmeshFirst ==
    /\ pc \in {"load_dashboard_data", "update_dashboard"} => sqlmesh = "returned"
    /\ (MutationsIssued # {} \/ dashboard_elements # <<>>) => sqlmesh = "returned"
    /\ sqlmesh = "raised" =>
          /\ pc = "raised"
          /\ MutationsIssued = {}
          /\ dashboard_elements = <<>>

C10_Witness ==
    /\ sqlmesh = "raised"
    /\ pc = "raised"
    /\ Len(ops) > 0

\* C15: for every input with available_height <= 0 the layout has
\* worst_picks_height = 0, best_picks_height = 0, add_both_picks_tables
\* false and best_picks_row_num None.
C15_NoRoom ==
    (LayoutComputed /\ AvailableHeight <= 0) =>
        /\ layout.worst_picks_height = 0
        /\ layout.best_picks_height = 0
        /\ ~layout.add_both_picks_tables
        /\ layout.best_picks_row_num = None

\* a scoreboard longer than the released-movies table, with picks data
C15_Witness ==
    /\ LayoutComputed
    /\ AvailableHeight < 0
    /\ scoreboard_length > released_movies_length
    /\ worst_picks_length > 1
    /\ best_picks_length > 1

\* C16: worst_picks_length <= 1 implies worst_picks_height = 0 and
\* best_picks_length <= 1 implies best_picks_height = 0, whatever the space.
C16_NoUsableData ==
    LayoutComputed =>
        /\ worst_picks_length <= 1 => layout.worst_picks_height = 0
        /\ best_picks_length <= 1 => layout.best_picks_height = 0

\* room for both tables, one row of data each
C16_Witness ==
    /\ LayoutComputed
    /\ AvailableHeight >= 6
    /\ worst_picks_length = 1
    /\ best_picks_length = 1

\* C19: the missing-movies check reports exactly the titles of D minus R
\* (D the drafted titles, R the released titles, as strings), in sorted
\* order, when the difference is not empty, and logs the success message
\* exactly when D is a subset of R.
DraftedTitles == { draft_movies[i].text : i \in DOMAIN draft_movies }
ReleasedTitles == { released_titles[i].text : i \in DOMAIN released_titles }

MissingMoviesLogged == pc \in {"_log_min_revenue_info", "log_min_revenue_info", "done"}

LogIndexes(msg) == { i \in DOMAIN log : log[i].msg = msg }

Ascending(titles) ==
    \A i, j \in DOMAIN titles : i < j => code_order(titles[i]) < code_order(titles[j])

C19_MissingMovies ==
    MissingMoviesLogged =>
        /\ (LogIndexes("missing_movies") # {}) <=> (DraftedTitles \ ReleasedTitles # {})
        /\ (LogIndexes("all_on_scoreboard") # {}) <=> (DraftedTitles \subseteq ReleasedTitles)
        /\ \A i \in LogIndexes("missing_movies") :
              /\ { log[i].detail[k] : k \in DOMAIN log[i].detail }
                     = DraftedTitles \ ReleasedTitles
              /\ Ascending(log[i].detail)

\* two titles missing, drafted in the order opposite to the sorted one
C19_Witness ==
    /\ MissingMoviesLogged
    /\ Len(draft_movies) = 2
    /\ code_order(draft_movies[1].text) > code_order(draft_movies[2].text)
    /\ DraftedTitles \cap ReleasedTitles = {}
    /\ ReleasedTitles # {}

\* C20: when the threshold query returns no rows for the configured year the
\* check logs the no-data message and issues no second query; when it
\* returns a row exactly one further query is issued.
MinRevenueQueries ==
    SelectSeq(queries, LAMBDA q : q \in {"threshold", "under_min"})

C20_NoSecondQuery ==
    pc = "done" =>
        IF \E r \in dump : r.this_year
        THEN /\ MinRevenueQueries = <<"threshold", "under_min">>
             /\ LogIndexes("no_revenue_data") = {}
             /\ LogIndexes("min_revenue") # {}
        ELSE /\ MinRevenueQueries = <<"threshold">>
             /\ LogIndexes("no_revenue_data") # {}
             /\ LogIndexes("min_revenue") = {}

\* the table has rows, none of them for the configured year
C20_Witness ==
    /\ pc = "done"
    /\ dump # {}
    /\ \A r \in dump : ~r.this_year
    /\ LogIndexes("no_revenue_data") # {}

\* C12: when at least one config file is invalid, or two share a draft id,
\* update_dashboards raises before a sync has been performed for any config.
SomeConfigInvalid ==
    \E i \in DOMAIN config_files : validate_config_raises(config_files[i])

SomeDraftIdShared ==
    \E i, j \in DOMAIN config_files :
        i < j /\ config_files[i].draft_id = config_files[j].draft_id

CallsOf(list, op, target) ==
    { i \in DOMAIN list : list[i].op = op /\ list[i].target = target }

Siblings == {"Manual Adds", "Multipliers and Exclusions"}

\* every spreadsheet call of the cycle has been made
SpreadsheetDone ==
    pc \in {"_log_missing_movies", "_log_min_revenue_info",
            "log_missing_movies", "log_min_revenue_info", "done"}

RunnerPath == assets # <<>>
LegacyPath == dashboard_elements # <<>>

\* C13: from any set of worksheets _handle_missing_worksheets ends with
\* Manual Adds, Multipliers and Exclusions and a newly created Dashboard
\* present; it deletes only a Dashboard that was there, before creating the
\* new one, creates a sibling only when it was absent, and run again it
\* succeeds with the same set of worksheets.
C13_HandleMissingWorksheets ==
    [][ pc = "pre_run_hooks" =>
          /\ \A i \in DOMAIN calls' :
                calls'[i].op = "delete_worksheet" =>
                    /\ calls'[i].target = "Dashboard"
                    /\ "Dashboard" \in worksheets
                    /\ \A j \in CallsOf(calls', "create_worksheet", "Dashboard") : i < j
          /\ \A name \in Siblings :
                CallsOf(calls', "create_worksheet", name) # {} => name \notin worksheets
          /\ pc' = "DashboardWorksheet.generate" =>
                /\ worksheets' = worksheets \cup Siblings \cup {"Dashboard"}
                /\ dashboard' = BlankDashboard(initial_rows, dashboard_cols)
                /\ Cardinality(CallsOf(calls', "create_worksheet", "Dashboard")) = 1
                /\ CallsOf(calls', "delete_worksheet", "Dashboard") # {}
                       <=> "Dashboard" \in worksheets
                /\ \A name \in Siblings :
                      CallsOf(calls', "create_worksheet", name) # {}
                          <=> name \notin worksheets
      ]_vars

\* the hook has succeeded a second time: everything was there, so it
\* deleted the Dashboard, created it again and created nothing else
C13_Witness ==
    /\ cycle = 2
    /\ pc = "DashboardWorksheet.generate"
    /\ CallsOf(calls, "delete_worksheet", "Dashboard") # {}
    /\ Cardinality({ i \in DOMAIN calls : calls[i].op = "create_worksheet" }) = 1
    /\ worksheets = {"Draft", "Dashboard"} \cup Siblings

\* C14, as stated: in every render cycle the Dashboard worksheet is created
\* with exactly released_movies_length + 5 rows and 25 columns, and has that
\* size before any asset data is written to it.
C14_SizedBeforeWrite ==
    /\ \A i \in CallsOf(calls, "create_worksheet", "Dashboard") :
          calls[i].arg = Size(released_movies_length + 5, dashboard_cols)
    /\ (CallsOf(calls, "write_dataframe", "Dashboard") # {} /\ dashboard.exists) =>
          /\ dashboard.rows = released_movies_length + 5
          /\ dashboard.cols = dashboard_cols

\* C14, amended: a cycle whose spreadsheet calls have all been made leaves
\* the Dashboard with exactly released_movies_length + 5 rows and 25
\* columns.  load_dashboard_data creates it with that size, so it has it
\* before any asset is written; run_dashboard creates it with 500 rows and 25
\* columns, writes and formats the assets on that, and gives it its rows only
\* afterwards, in the post-run hook.
C14_SizedAtEnd ==
    /\ SpreadsheetDone =>
          /\ dashboard.exists
          /\ dashboard.rows = released_movies_length + 5
          /\ dashboard.cols = dashboard_cols
    /\ (LegacyPath /\ dashboard.exists) =>
          /\ dashboard.rows = released_movies_length + 5
          /\ dashboard.cols = dashboard_cols
    /\ (RunnerPath /\ CallsOf(calls, "resize_sheet", "Dashboard") = {}) =>
          /\ dashboard.exists
          /\ dashboard.rows = initial_rows
          /\ dashboard.cols = dashboard_cols

\* run_dashboard has finished over a table long enough for picks tables
C14_Witness ==
    /\ pc = "done"
    /\ RunnerPath
    /\ released_movies_length = MaxReleased
    /\ CallsOf(calls, "write_dataframe", "Dashboard") # {}
    /\ dashboard.rows = MaxReleased + 5

\* C17: the message written to G2 holds the 'Dashboard is done updating'
\* text exactly when the released movies table has a row, every row's 'Still
\* In Theaters' is 'No' and the configured year is before the current year;
\* the 'last updated' and 'data updated through' parts are always there.
Parts(message) == { message[i] : i \in DOMAIN message }

G2Written == dashboard.exists /\ dashboard.g2 # NoMessage

C17_FreshnessMessage ==
    G2Written =>
        /\ "Dashboard is done updating" \in Parts(dashboard.g2)
              <=> /\ released_movies_length >= 1
                  /\ still_in_theaters = {}
                  /\ year < CurrentYear
        /\ "Dashboard Last Updated" \in Parts(dashboard.g2)
        /\ "Data Updated Through" \in Parts(dashboard.g2)

\* a finished dashboard of last year: the done text is in G2
C17_Witness ==
    /\ G2Written
    /\ "Dashboard is done updating" \in Parts(dashboard.g2)
    /\ released_movies_length = MaxReleased
    /\ year = CurrentYear - 1

\* C18: the two diagnostics checks run only after every spreadsheet
\* operation of the cycle has completed, and issue no spreadsheet operation
\* themselves.
DiagnosticsStep == Len(queries') > Len(queries) \/ Len(log') > Len(log)

LastCallMade ==
    /\ calls # <<>>
    /\ \/ RunnerPath /\ calls[Len(calls)].op = "reorder_worksheets"
       \/ LegacyPath /\ calls[Len(calls)].op = "set_notes"

C18_DiagnosticsLast ==
    [][ /\ DiagnosticsStep =>
              /\ LastCallMade
              /\ UNCHANGED <<ops, calls, worksheets, dashboard>>
        /\ Len(ops') > Len(ops) => queries = <<>> /\ log = <<>>
      ]_vars

\* both checks have run after a render
C18_Witness ==
    /\ pc = "done"
    /\ LastCallMade
    /\ Len(queries) >= 3
    /\ Len(log) >= 2

\* C11: whatever the spreadsheet held before, the state a failed cycle left
\* included, a successful cycle leaves the Dashboard worksheet as a
\* successful cycle does that found no Dashboard worksheet.
runner_cycle_calls ==
    handle_missing_worksheets_calls({"Draft"})
    \o write_dataframe_calls(generate_assets(scoreboard_length, released_movies_length,
                                             worst_picks_length, best_picks_length))
    \o (IF formatting_first THEN get_formatting_calls ELSE <<>>)
    \o post_write_hook_calls(generate_assets(scoreboard_length, released_movies_length,
                                             worst_picks_length, best_picks_length),
                             released_movies_length, still_in_theaters, zero_value_rows,
                             year, dump)
    \o (IF formatting_first THEN <<>> ELSE get_formatting_calls)
    \o resize_sheet_calls(sheet_height_of(released_movies_length))

legacy_cycle_calls ==
    LET lay == GoogleSheetDashboard_calculate_picks_table_layout(
                   scoreboard_length, released_movies_length,
                   worst_picks_length, best_picks_length)
        add_picks_table == add_picks_table_of(lay, worst_picks_length)
    IN  setup_worksheet_calls("ok", released_movies_length)
        \o update_dashboard_calls(
               init_dashboard_elements(scoreboard_length, released_movies_length,
                                       worst_picks_length, best_picks_length),
               lay, add_picks_table, still_in_theaters, zero_value_rows, year, dump)
        \o update_titles_calls(lay, add_picks_table)
        \o << Call("add_conditional_format", "Dashboard",
                   Range("X", sheet_height_of(released_movies_length))),
              Call("set_notes", "Dashboard", NoArg) >>

FromNoDashboard ==
    dashboard_after_all(IF RunnerPath THEN runner_cycle_calls ELSE legacy_cycle_calls,
                        NoDashboard)

C11_SameVisibleState ==
    SpreadsheetDone => dashboard = FromNoDashboard

\* a second cycle has succeeded on what the first one left
C11_Witness ==
    /\ cycle = 2
    /\ pc = "done"
    /\ released_movies_length = MaxReleased
    /\ dashboard.written # {}
    /\ ~dashboard.stale

\* ------------------------------------------------- heights of the two tables
\* C26: whenever add_both_picks_tables is true, worst_picks_height >= 1 and
\* best_picks_height >= 1.
C26_BothHeightsPositive ==
    (LayoutComputed /\ layout.add_both_picks_tables) =>
        /\ layout.worst_picks_height >= 1
        /\ layout.best_picks_height >= 1

\* both tables in the least room that admits them
C26_Witness ==
    /\ LayoutComputed
    /\ layout.add_both_picks_tables
    /\ AvailableHeight = 6
    /\ layout.worst_picks_height = 1
    /\ layout.best_picks_height = 1

\* C27 as stated: whenever add_both_picks_tables is true, the two heights
\* differ by at most 1.
C27_NearEqualHeights ==
    (LayoutComputed /\ layout.add_both_picks_tables) =>
        /\ layout.worst_picks_height - layout.best_picks_height <= 1
        /\ layout.best_picks_height - layout.worst_picks_height <= 1

\* Each table has at least as many data rows as its share of the usable
\* height: the floor of the half for the worst picks, the rest for the best.
SharesFilled ==
    /\ worst_picks_length >= FloorDiv(UsableHeight, 2)
    /\ best_picks_length >= UsableHeight - FloorDiv(UsableHeight, 2)

\* C27 amended: whenever add_both_picks_tables is true and neither table is
\* capped by the length of its data, best_picks_height is worst_picks_height
\* or one more.
C27_NearEqualWhenUncapped ==
    (LayoutComputed /\ layout.add_both_picks_tables /\ SharesFilled) =>
        /\ layout.worst_picks_height <= layout.best_picks_height
        /\ layout.best_picks_height - layout.worst_picks_height <= 1

\* an odd usable height split between two tables with data enough
C27_Witness ==
    /\ LayoutComputed
    /\ layout.add_both_picks_tables
    /\ SharesFilled
    /\ UsableHeight = 7
    /\ layout.best_picks_height = layout.worst_picks_height + 1

\* ------------------------------------------------------- rows and the sheet
PicksAssets == { i \in DOMAIN assets : assets[i].name \in {"WorstPicks", "BestPicks"} }

LastRow(asset) == asset.row + Len(asset.df)

\* C28: the last row of a shown picks table (worst_picks_row_num +
\* worst_picks_height when only the worst picks are shown, best_picks_row_num +
\* best_picks_height when both are) is at most 4 + released_movies_length,
\* the last data row of the released-movies table.
C28_PicksAboveLastReleased ==
    LayoutComputed =>
        /\ layout.add_both_picks_tables =>
              layout.best_picks_row_num + layout.best_picks_height
                  <= 4 + released_movies_length
        /\ (~layout.add_both_picks_tables /\ layout.worst_picks_height > 0) =>
              layout.worst_picks_row_num + layout.worst_picks_height
                  <= 4 + released_movies_length
        /\ \A i \in PicksAssets : LastRow(assets[i]) <= 4 + released_movies_length

\* a lone worst-picks table that ends on the last released-movies row
C28_Witness ==
    /\ LayoutComputed
    /\ ~layout.add_both_picks_tables
    /\ PicksAssets # {}
    /\ \E i \in PicksAssets : LastRow(assets[i]) = 4 + released_movies_length

\* C29: every row an asset writes, the scoreboard's last data row
\* 4 + scoreboard_length included, is at most
\* sheet_height = released_movies_length + 5.
C29_RowsWithinSheet ==
    \A i \in DOMAIN assets :
        /\ title_row(assets[i]) <= sheet_height_of(released_movies_length)
        /\ \A row \in data_rows(assets[i]) :
              row <= sheet_height_of(released_movies_length)

\* -------------------------------------------------- the three layout copies
LayoutFields ==
    {"available_height", "add_both_picks_tables", "worst_picks_row_num",
     "worst_picks_height", "best_picks_row_num", "best_picks_height"}

\* C30: the copy of DashboardWorksheet, the copy of GoogleSheetDashboard and
\* the copy of tests/test_gsheet_layout.py return the same layout, field by
\* field, for every input.
C30_CopiesAgree ==
    LET worksheet == calculate_picks_table_layout(
                         scoreboard_length, released_movies_length,
                         worst_picks_length, best_picks_length)
        legacy == GoogleSheetDashboard_calculate_picks_table_layout(
                      scoreboard_length, released_movies_length,
                      worst_picks_length, best_picks_length)
        tested == test_calculate_picks_table_layout(
                      scoreboard_length, released_movies_length,
                      worst_picks_length, best_picks_length)
    IN  /\ DOMAIN worksheet = LayoutFields
        /\ DOMAIN legacy = LayoutFields
        /\ DOMAIN tested = LayoutFields
        /\ \A field \in LayoutFields :
              /\ worksheet[field] = legacy[field]
              /\ legacy[field] = tested[field]
        /\ LayoutComputed => \A field \in LayoutFields : layout[field] = tested[field]

\* the legacy copy has laid out two tables of different heights
C30_Witness ==
    /\ LayoutComputed
    /\ dashboard_elements # <<>>
    /\ layout.add_both_picks_tables
    /\ layout.best_picks_height > layout.worst_picks_height
    /\ layout.worst_picks_height > 1

\* ---------------------------------------------------------- validate_config
\* The outcome held in validated is that of the file at position.
Validated == validated # NoOutcome /\ pc # "get_config_dict"

ExpectedType(field) == IF field = "year" THEN "int" ELSE "str"

RequiredNames ==
    {"year", "name", "sheet_name", "draft_id", "update_type", "gspread_credentials_name"}

MissingNames(config) == { field \in RequiredNames : config[field] = Absent }

\* The checks of the claim that fail on a config, by field and check.
Violations(config) ==
    { ErrorItem(field, "expected type") :
        field \in { f \in RequiredNames :
                      config[f] # Absent /\ config[f].type # ExpectedType(f) } }
    \cup { ErrorItem("year", "must be last year or this year") :
             field \in { f \in {"year"} :
                           /\ config[f].type = "int"
                           /\ config[f].value # CurrentYear - 1
                           /\ config[f].value # CurrentYear } }
    \cup { ErrorItem("update_type", "must be 's3' or 'web'") :
             field \in { f \in {"update_type"} :
                           /\ config[f] # Absent
                           /\ config[f] # StrValue("s3")
                           /\ config[f] # StrValue("web") } }
    \cup { ErrorItem(field, "required when update_type is 's3'") :
             field \in { f \in {"bucket", "s3_access_key_id_var_name",
                                "s3_secret_access_key_var_name"} :
                           config.update_type = StrValue("s3") /\ config[f] = Absent } }

\* The items of the line of the raised message that starts with the text.
ItemsOf(message, text) ==
    UNION { { message[i].items[k] : k \in DOMAIN message[i].items } :
            i \in { j \in DOMAIN message : message[j].line = text } }

\* C21: on a config with violations validate_config raises one ValueError
\* whose message names every missing required field and every type or
\* validation error found, not only the first; on a config that passes every
\* check it raises nothing and returns the config unchanged.
C21_AllErrorsNamed ==
    Validated =>
        LET config == config_files[position]
        IN  IF MissingNames(config) = {} /\ Violations(config) = {}
            THEN validated = Returned(config)
            ELSE /\ pc = "raised"
                 /\ DOMAIN validated = {"raised", "message"}
                 /\ validated.raised = "ValueError"
                 /\ ItemsOf(validated.message, "Missing required fields")
                        = MissingNames(config)
                 /\ ItemsOf(validated.message, "Type/validation errors")
                        = Violations(config)

\* one error naming three missing fields and three other violations
C21_Witness ==
    /\ Validated
    /\ pc = "raised"
    /\ Cardinality(MissingNames(config_files[position])) = 3
    /\ Cardinality(Violations(config_files[position])) = 3
    /\ Len(validated.message) = 2

Terminated ==
    \/ pc = "returned"
    \/ pc = "raised" /\ Len(retries) = max_retries

\* C23: an invocation of update_dashboards is attempted at most 4 times, the
\* first attempt and at most 3 retries, each retry after the same delay; a
\* retry happens only after an attempt that ended with an exception; the
\* invocation terminates, with the first attempt that returns or with the
\* fourth that raises.
C23_RetriesBounded ==
    /\ [](Len(retries) + 1 <= 4)
    /\ [][retries' # retries =>
             /\ pc = "raised"
             /\ retries' = Append(retries, 60)
             /\ pc' = "update_dashboards"]_vars
    /\ [][pc = "returned" => pc' = "returned"]_vars
    /\ <>[]Terminated

\* the fourth attempt has raised
C23_Witness ==
    /\ pc = "raised"
    /\ Len(retries) = 3
    /\ synced # <<>>

\* ------------------------------------------------- order of the asset hooks
TitleColumn(asset) == IF asset.name = "ReleasedMovies" THEN "I" ELSE "B"
TableColumns(asset) == IF asset.name = "ReleasedMovies" THEN "I:X" ELSE "B:G"

LastFormattedRow(asset) ==
    IF asset.name = "ReleasedMovies"
    THEN released_movies_length + 5
    ELSE asset.row + Len(asset.df)

\* The step of the asset's post-write operations that a call is: 1 write the
\* title, 2 merge the title cells, 3 format the title, 4 format the header
\* row, 5 format the data-column ranges, 6 conditional format, 7 blanking of
\* a zero value, 8 write of the freshness message; 0 for any other call.
StepOf(call, asset) ==
    CASE call.op = "write_values" ->
            IF call.arg.cell = TitleColumn(asset) /\ call.arg.row = title_row(asset)
            THEN 1
            ELSE IF asset.name = "ReleasedMovies" /\ call.arg.cell = "V"
                 THEN 7
                 ELSE IF /\ asset.name = "ReleasedMovies"
                         /\ call.arg.cell = "G"
                         /\ call.arg.row = 2
                      THEN 8
                      ELSE 0
      [] call.op = "merge_cells" ->
            IF /\ call.arg.row = title_row(asset)
               /\ call.arg.tag \in (IF asset.name = "ReleasedMovies"
                                    THEN {"I:X"}
                                    ELSE {"B:F", "B:G"})
            THEN 2
            ELSE 0
      [] call.op = "format_range" ->
            IF call.arg.tag = TitleColumn(asset) /\ call.arg.row = title_row(asset)
            THEN 3
            ELSE IF /\ call.arg.tag = TableColumns(asset)
                    /\ call.arg.format = "HEADER_FORMAT"
                    /\ call.arg.row = asset.row
                 THEN 4
                 ELSE IF /\ call.arg.tag = TableColumns(asset)
                         /\ call.arg.format = "data"
                         /\ call.arg.row = LastFormattedRow(asset)
                      THEN 5
                      ELSE 0
      [] call.op = "add_conditional_format" ->
            IF asset.name = "ReleasedMovies" THEN 6 ELSE 0
      [] OTHER -> 0

StepsOf(asset) == [i \in DOMAIN calls |-> StepOf(calls[i], asset)]

\* C24: the post-write operations of every asset are issued in the order
\* write title, merge title cells, format title, format header row, format
\* data-column ranges, and for ReleasedMovies then conditional format,
\* zero-value blanking, freshness-message write; no operation is issued
\* before those that come before it.
C24_HookOrder ==
    \A a \in DOMAIN assets :
        LET step == StepsOf(assets[a])
        IN  /\ \A i, j \in DOMAIN calls :
                  (i < j /\ step[i] > 0 /\ step[j] > 0) =>
                      \/ step[i] < step[j]
                      \/ step[i] = 7 /\ step[j] = 7
            /\ \A j \in DOMAIN calls :
                  \A earlier \in 1..Min(step[j] - 1, 6) :
                      \E i \in 1..(j - 1) : step[i] = earlier

\* four assets, zero values blanked and the freshness message written
C24_Witness ==
    /\ SpreadsheetDone
    /\ Len(assets) = 4
    /\ \A a \in DOMAIN assets : \E i \in DOMAIN calls : StepsOf(assets[a])[i] = 5
    /\ \E i, j \in DOMAIN calls :
          /\ StepsOf(assets[2])[i] = 7
          /\ StepsOf(assets[2])[j] = 8

\* ------------------------------------------------------ width of column G
SaysDone == G2Written /\ "Dashboard is done updating" \in Parts(dashboard.g2)

WidthCallsOfG ==
    { i \in DOMAIN calls : calls[i].op = "set_column_width" /\ calls[i].arg.column = "G" }

\* The width pass runs before the hooks, as run_dashboard states its steps;
\* update_dashboard sets the widths itself, in its own order.
WidthPassFirst == LegacyPath \/ (RunnerPath /\ formatting_first)

====
